---- MODULE Spec2Model ----
(***************************************************************************)
(* A model of the grammar engine of the sipgo SIP stack: the ordered       *)
(* parameter map (HeaderParams), the SIP/SIPS/TEL URI parsers and          *)
(* renderers, and the name-address parser.                                 *)
(*                                                                         *)
(* Strings are sequences of one-character strings; slice indices of the    *)
(* Go code are 0-based, sequence indices here are 1-based.                 *)
(***************************************************************************)
EXTENDS Integers, Sequences, FiniteSets, TLC

VARIABLES
    hp,       \* the *HeaderParams under test (starts as NewParams())
    o,        \* a second *HeaderParams, the argument of Equals (starts nil)
    ref,      \* reference insertion-ordered map mirrored for hp: Seq of pairs
    last,     \* the last HeaderParams call: [op, tgt, key, pos]
    uriStr,   \* text handed to the URI parsers
    pc,       \* which URI operation has been applied to uriStr
    uri,      \* result of ParseURI(uriStr): [uri, err]
    out,      \* the *SIPURI / *TELURI out-parameter after ParseSIPURI / ParseTELURI
    outErr,   \* error returned by ParseSIPURI / ParseTELURI
    uri2,     \* result of ParseURI(uri.String()): [uri, err]
    addrIn,   \* the parts of the text handed to ParseAddressValue
    addr,     \* result of ParseAddressValue(AddrText(addrIn)): [address, err]
    apc,      \* whether ParseAddressValue has been applied
    tel,      \* the *TELURI receiver of TELtoSIP
    telBefore, \* tel as it was before the call
    sip,      \* the *SIPURI out-parameter of TELtoSIP
    sipBefore, \* sip as it was before the call
    telErr,   \* what TELtoSIP returned
    tpc,      \* whether TELtoSIP has been applied
    hdrText,  \* text handed to a header parser
    hdr,      \* what the header parser left: [kind, address, err]
    hpc,      \* whether a header parser has been applied
    heap,     \* the HeaderParams objects: object name -> value, Unalloc when free
    recv,     \* a *HeaderParams variable: an object name or NilPtr
    dup,      \* the *HeaderParams that recv.Clone() returned, NilPtr before
    olast,    \* the last call on recv or dup: [op, tgt, on, pairs]
    res,      \* per task, the last read-only call it made on recv: [op, arg, val]
    headerOrder, \* headers.headerOrder: the headers of one container, in order
    via,      \* headers.via: <<>> when nil, <<h>> when it refers to header h
    contact,  \* headers.contact: <<>> when nil, <<h>> when it refers to header h
    hsLast,   \* the last call on the container
    hsRes,    \* what the last typed accessor returned: <<>> for nil, else <<h>>
    fsm,      \* one run of a driving loop: [kind, state, s, err, obj, from, fromLen]
    byval     \* a URI's map and a by-value copy of it: [keys, arrs, u, p, last, fault]

hpVars   == <<hp, o, ref, last>>
uriVars  == <<uriStr, pc, uri, out, outErr, uri2>>
addrVars == <<addrIn, addr, apc>>
telVars  == <<tel, telBefore, sip, sipBefore, telErr, tpc>>
hdrVars  == <<hdrText, hdr, hpc>>
objVars  == <<heap, recv, dup, olast, res>>
hsVars   == <<headerOrder, via, contact, hsLast, hsRes>>
vars     == <<hp, o, ref, last, uriStr, pc, uri, out, outErr, uri2, addrIn, addr, apc,
              tel, telBefore, sip, sipBefore, telErr, tpc, hdrText, hdr, hpc,
              heap, recv, dup, olast, res, headerOrder, via, contact, hsLast, hsRes,
              fsm, byval>>

(***************************************************************************)
(* Bounds of the model.                                                    *)
(***************************************************************************)
\* largest number of pairs handed to one variadic Add call
MaxPairs == 2

\* keys and values the HeaderParams calls draw from
ParamKeys == {<<"a">>, <<"b">>, <<"c">>}
ParamVals == {<<>>, <<"1">>}

(***************************************************************************)
(* Generic helpers on sequences (Go slices and strings).                   *)
(***************************************************************************)
\* s[from:to] of Go, 0-based, to exclusive
Slice(s, from, to) == SubSeq(s, from + 1, to)

\* s[from:] of Go
SliceFrom(s, from) == SubSeq(s, from + 1, Len(s))

Min(a, b) == IF a < b THEN a ELSE b

Max(a, b) == IF a > b THEN a ELSE b

\* 0-based index of the first element of s that is in set cs, or -1
IndexAny(s, cs) ==
    IF \E i \in 1..Len(s) : s[i] \in cs
    THEN (CHOOSE i \in 1..Len(s) : s[i] \in cs /\ \A j \in 1..(i-1) : s[j] \notin cs) - 1
    ELSE -1

\* F applied to the value of x, x evaluated once
With(x, F(_)) == CHOOSE y \in {F(v) : v \in {x}} : TRUE

\* all sequences over set S of length 1..n
SeqsUpTo(S, n) == UNION {[1..m -> S] : m \in 1..n}

(***************************************************************************)
(* HeaderParams (header_params.go).                                        *)
(* A *HeaderParams is NilHP or a record [keys, data]: keys maps a key to   *)
(* its 0-based index in data, data is the slice of Pair.                   *)
(***************************************************************************)
Pair(k, v) == [Key |-> k, Val |-> v]

NilHP == [nil |-> TRUE]

EmptyKeys == [k \in {} |-> 0]

NewParams == [keys |-> EmptyKeys, data |-> <<>>]

\* HeaderParams{}: the zero value, keys and data both nil
ZeroHP == [keys |-> EmptyKeys, data |-> <<>>, zero |-> TRUE]

IsZeroValue(h) == "zero" \in DOMAIN h

\* Keys: k := make([]string, len(hp.keys)); k[i] = key for every key, i
Keys(h) ==
    [n \in 1..Cardinality(DOMAIN h.keys) |->
        IF \E k \in DOMAIN h.keys : h.keys[k] = n - 1
        THEN CHOOSE k \in DOMAIN h.keys : h.keys[k] = n - 1
        ELSE <<>>]

\* Get returns <<value, found>>
Get(h, key) ==
    IF key \notin DOMAIN h.keys
    THEN <<<<>>, FALSE>>
    ELSE <<h.data[h.keys[key] + 1].Val, TRUE>>

Has(h, key) == key \in DOMAIN h.keys

Length(h) == Len(h.data)

\* a buggy loop body: an overwriting Add moves the key to the end
AddOneMovesKey(h, p) ==
    LET kept == SelectSeq(h.data, LAMBDA q : q.Key # p.Key)
        nd   == Append(kept, Pair(p.Key, p.Val))
    IN [keys |-> [k \in {nd[i].Key : i \in 1..Len(nd)} |->
                    (CHOOSE i \in 1..Len(nd) : nd[i].Key = k) - 1],
        data |-> nd]

\* the body of Add's loop over the pairs
AddOne(h, p) ==
    IF p.Key \in DOMAIN h.keys
    THEN [h EXCEPT !.data[h.keys[p.Key] + 1].Val = p.Val]
    ELSE [keys |-> [k \in DOMAIN h.keys \cup {p.Key} |->
                      IF k = p.Key THEN Len(h.data) ELSE h.keys[k]],
          data |-> Append(h.data, Pair(p.Key, p.Val))]

RECURSIVE AddLoop(_, _)
AddLoop(h, pairs) ==
    IF pairs = <<>> THEN h
    ELSE With(AddOne(h, Head(pairs)), LAMBDA h2 : AddLoop(h2, Tail(pairs)))

\* an Add without the allocations: a nil receiver is returned as it is
AddNoAlloc(h, pairs) ==
    IF h = NilHP THEN NilHP
    ELSE AddLoop(h, pairs)

\* Add on a nil receiver allocates NewParams() first; on nil keys or data it
\* makes both anew
Add(h, pairs) ==
    IF h = NilHP THEN AddLoop(NewParams, pairs)
    ELSE IF IsZeroValue(h) THEN AddLoop(NewParams, pairs)
    ELSE AddLoop(h, pairs)

\* a buggy Remove: the indices after the removed one are not shifted down
RemoveNoReindex(h, key) ==
    IF key \in DOMAIN h.keys
    THEN LET i == h.keys[key]
         IN [keys |-> [k \in DOMAIN h.keys \ {key} |-> h.keys[k]],
             data |-> Slice(h.data, 0, i) \o SliceFrom(h.data, i + 1)]
    ELSE h

Remove(h, key) ==
    IF key \in DOMAIN h.keys
    THEN LET i == h.keys[key]
         IN [keys |-> [k \in DOMAIN h.keys \ {key} |->
                         IF h.keys[k] > i THEN h.keys[k] - 1 ELSE h.keys[k]],
             data |-> Slice(h.data, 0, i) \o SliceFrom(h.data, i + 1)]
    ELSE h

\* clone: a new keys map and a new data slice, filled in the order of hp.data
clone(h) ==
    [keys |-> [k \in {h.data[i].Key : i \in 1..Len(h.data)} |->
                 (CHOOSE i \in 1..Len(h.data) :
                     h.data[i].Key = k /\ \A j \in 1..Len(h.data) : h.data[j].Key = k => j <= i)
                 - 1],
     data |-> h.data]

\* a buggy Equals: the position of a key is not compared
EqualsIgnoresOrder(a, b) ==
    IF b = NilHP THEN FALSE
    ELSE IF Length(a) # Length(b) THEN FALSE
    ELSE IF Length(a) = 0 /\ Length(b) = 0 THEN TRUE
    ELSE /\ \A k \in DOMAIN a.keys :
              /\ k \in DOMAIN b.keys
              /\ a.data[a.keys[k] + 1].Val = b.data[b.keys[k] + 1].Val
         /\ \A k \in DOMAIN b.keys :
              /\ k \in DOMAIN a.keys
              /\ b.data[b.keys[k] + 1].Val = a.data[a.keys[k] + 1].Val

\* Equals: both loops of the code, over hp.keys and over o.keys
Equals(a, b) ==
    IF b = NilHP THEN FALSE
    ELSE IF Length(a) # Length(b) THEN FALSE
    ELSE IF Length(a) = 0 /\ Length(b) = 0 THEN TRUE
    ELSE /\ \A k \in DOMAIN a.keys :
              /\ k \in DOMAIN b.keys
              /\ a.keys[k] = b.keys[k]
              /\ a.data[a.keys[k] + 1].Val = b.data[b.keys[k] + 1].Val
         /\ \A k \in DOMAIN b.keys :
              /\ k \in DOMAIN a.keys
              /\ b.keys[k] = a.keys[k]
              /\ b.data[b.keys[k] + 1].Val = a.data[a.keys[k] + 1].Val

\* the bytes the model has a name for: an ASCII byte is named by its
\* character, a byte from 0x7F on by its hexadecimal form
ByteVals == {38, 59, 63, 127, 128, 191, 194, 195, 255}

ByteAtom(n) ==
    CASE n = 38 -> "&" [] n = 59 -> ";" [] n = 63 -> "?" [] n = 127 -> "0x7F"
      [] n = 128 -> "0x80" [] n = 191 -> "0xBF" [] n = 194 -> "0xC2"
      [] n = 195 -> "0xC3" [] n = 255 -> "0xFF"

ByteVal(c) == CHOOSE n \in ByteVals : ByteAtom(n) = c

\* string(sep) of a uint8: the UTF-8 encoding of the code point sep, one byte
\* below 0x80 and two bytes from 0x80 on
SepString(sep) ==
    With(ByteVal(sep),
         LAMBDA n : IF n < 128 THEN <<sep>>
                    ELSE <<ByteAtom(192 + (n \div 64)), ByteAtom(128 + (n % 64))>>)

\* HeaderParams.ToString: every pair preceded by string(sep), then the first
\* byte cut off
ParamsToString(h, sep) ==
    IF Len(h.data) = 0 THEN <<>>
    ELSE LET piece(q) == SepString(sep) \o q.Key \o (IF q.Val # <<>> THEN <<"=">> \o q.Val ELSE <<>>)
             Build[n \in 0..Len(h.data)] ==
                 IF n = 0 THEN <<>> ELSE Build[n - 1] \o piece(h.data[n])
         IN SliceFrom(Build[Len(h.data)], 1)

\* HeaderParams.ToStringWrite: what buffer holds after the call
ToStringWrite(h, sep, buffer) ==
    IF Len(h.data) = 0 THEN buffer
    ELSE LET piece(n) == (IF n > 1 THEN SepString(sep) ELSE <<>>) \o h.data[n].Key
                         \o (IF h.data[n].Val = <<>> THEN <<>> ELSE <<"=">> \o h.data[n].Val)
             Build[n \in 0..Len(h.data)] ==
                 IF n = 0 THEN buffer ELSE Build[n - 1] \o piece(n)
         IN Build[Len(h.data)]

(***************************************************************************)
(* Text helpers (strings, strconv).                                        *)
(***************************************************************************)
NoErr == ""

UpperOf == [c \in {"a", "c", "e", "f", "i", "l", "m", "n", "o", "p", "r", "s", "t", "u", "v", "x"} |->
              CASE c = "a" -> "A" [] c = "c" -> "C" [] c = "e" -> "E"
                [] c = "f" -> "F" [] c = "i" -> "I" [] c = "l" -> "L"
                [] c = "m" -> "M" [] c = "n" -> "N" [] c = "o" -> "O"
                [] c = "p" -> "P" [] c = "r" -> "R" [] c = "s" -> "S"
                [] c = "t" -> "T" [] c = "u" -> "U" [] c = "v" -> "V"
                [] c = "x" -> "X"]

LowerChar(c) ==
    IF \E l \in DOMAIN UpperOf : UpperOf[l] = c
    THEN CHOOSE l \in DOMAIN UpperOf : UpperOf[l] = c
    ELSE c

\* strings.ToLower
ToLower(s) == [i \in 1..Len(s) |-> LowerChar(s[i])]

\* ASCIIToLower of the repository: lower-cases the ASCII letters
ASCIIToLower(s) == [i \in 1..Len(s) |-> LowerChar(s[i])]

Digits == <<"0", "1", "2", "3", "4", "5", "6", "7", "8", "9">>

IsDigit(c) == \E d \in 1..10 : Digits[d] = c

DigitVal(c) == (CHOOSE d \in 1..10 : Digits[d] = c) - 1

\* strconv.Atoi on short text: an optional sign, then one or more digits;
\* returns [val, err], val = 0 on a syntax error
Atoi(s) ==
    LET signed == Len(s) > 0 /\ s[1] \in {"+", "-"}
        body   == IF signed THEN SliceFrom(s, 1) ELSE s
        Val[n \in 0..Len(body)] ==
            IF n = 0 THEN 0 ELSE Val[n - 1] * 10 + DigitVal(body[n])
    IN IF Len(body) < 1 \/ \E i \in 1..Len(body) : ~IsDigit(body[i])
       THEN [val |-> 0, err |-> "strconv.Atoi: invalid syntax"]
       ELSE [val |-> IF signed /\ s[1] = "-" THEN 0 - Val[Len(body)] ELSE Val[Len(body)],
             err |-> NoErr]

\* strconv.Itoa of a positive number
RECURSIVE Itoa(_)
Itoa(n) ==
    IF n < 10 THEN <<Digits[n + 1]>>
    ELSE Itoa(n \div 10) \o <<Digits[(n % 10) + 1]>>

\* strings.CutPrefix(s, "//"): <<rest, found>>
CutSlashes(s) ==
    IF Len(s) >= 2 /\ s[1] = "/" /\ s[2] = "/"
    THEN <<SliceFrom(s, 2), TRUE>>
    ELSE <<s, FALSE>>

(***************************************************************************)
(* URI values (uri.go).                                                    *)
(***************************************************************************)
URISchemeError == -1
URISchemeSIP == 0
URISchemeSIPS == 1
URISchemeTEL == 2
URISchemeURN == 3
URISchemeUnknown == 4

\* uriSchemes[scheme], "" for a scheme the map does not hold
uriSchemes(scheme) ==
    CASE scheme = URISchemeSIP  -> <<"s", "i", "p">>
      [] scheme = URISchemeSIPS -> <<"s", "i", "p", "s">>
      [] scheme = URISchemeTEL  -> <<"t", "e", "l">>
      [] OTHER -> <<>>

detectScheme(s) ==
    LET l == ToLower(s)
    IN CASE l = <<"s", "i", "p">> \/ l = <<"*">> -> URISchemeSIP
         [] l = <<"s", "i", "p", "s">> -> URISchemeSIPS
         [] l = <<"t", "e", "l">> -> URISchemeTEL
         [] OTHER -> URISchemeUnknown

NilURI == [type |-> "nil"]

\* SIPURI{} : the zero value
ZeroSIPURI ==
    [type |-> "SIPURI", Scheme |-> URISchemeSIP, Wildcard |-> FALSE,
     HierarhicalSlashes |-> FALSE, User |-> <<>>, Password |-> <<>>,
     Host |-> <<>>, Port |-> 0, Params |-> NilHP, Headers |-> NilHP]

\* TELURI{} : the zero value
ZeroTELURI ==
    [type |-> "TELURI", Scheme |-> URISchemeSIP, Wildcard |-> FALSE,
     HierarhicalSlashes |-> FALSE, Number |-> <<>>, Params |-> NilHP,
     Headers |-> NilHP]

IsEncrypted(u) == u.type = "SIPURI" /\ u.Scheme = URISchemeSIPS

\* SIPURI.String
SIPURIString(u) ==
    uriSchemes(u.Scheme) \o <<":">>
    \o (IF u.HierarhicalSlashes THEN <<"/", "/">> ELSE <<>>)
    \o (IF u.User # <<>>
        THEN u.User \o (IF u.Password # <<>> THEN <<":">> \o u.Password ELSE <<>>) \o <<"@">>
        ELSE <<>>)
    \o u.Host
    \o (IF u.Port > 0 THEN <<":">> \o Itoa(u.Port) ELSE <<>>)
    \o (IF u.Params # NilHP /\ Length(u.Params) > 0
        THEN <<";">> \o ParamsToString(u.Params, ";") ELSE <<>>)
    \o (IF u.Headers # NilHP /\ Length(u.Headers) > 0
        THEN <<"?">> \o ParamsToString(u.Headers, "&") ELSE <<>>)

\* TELURI.String; GetScheme() of a TELURI is always URISchemeTEL.
\* u.Params is non-nil after every successful ParseTELURI.
TELURIString(u) ==
    uriSchemes(URISchemeTEL) \o <<":">>
    \o (IF u.HierarhicalSlashes THEN <<"/", "/">> ELSE <<>>)
    \o u.Number
    \o (IF Length(u.Params) > 0 THEN <<";">> \o ParamsToString(u.Params, ";") ELSE <<>>)

URIString(u) == IF u.type = "TELURI" THEN TELURIString(u) ELSE SIPURIString(u)

\* removeVisualFromNumber: a '+' at index 0 and every digit are kept
removeVisualFromNumber(number) ==
    LET keep == {i \in 1..Len(number) : (i = 1 /\ number[i] = "+") \/ IsDigit(number[i])}
        RECURSIVE build(_)
        build(i) == IF i > Len(number) THEN <<>>
                    ELSE (IF i \in keep THEN <<number[i]>> ELSE <<>>) \o build(i + 1)
    IN build(1)

ErrNilDereference == "panic: nil pointer dereference"
ErrPhoneContext   == "phone-context parameter is required for TEL-URI to SIP conversion"
PhoneContext == <<"phone-context">>
UserContext  == <<"user-context">>
Phone        == <<"p", "h", "o", "n", "e">>

\* (u *TELURI) TELtoSIP(uri *SIPURI), uri written sipOut: [err, tel, sip].
\* u.Params.Get on a nil u.Params dereferences nil; uri.Params and u.Params
\* end as one object.
TELtoSIP(u, sipOut) ==
    IF u.Params = NilHP
    THEN [err |-> ErrNilDereference, tel |-> u, sip |-> sipOut]
    ELSE With(Get(u.Params, PhoneContext), LAMBDA g :
           IF ~g[2] \/ g[1] = <<>>
           THEN [err |-> ErrPhoneContext, tel |-> u, sip |-> sipOut]
           ELSE With(Add(Remove(u.Params, PhoneContext), <<Pair(UserContext, Phone)>>),
                  LAMBDA q :
                  [err |-> NoErr,
                   tel |-> [u EXCEPT !.Params = q],
                   sip |-> [sipOut EXCEPT !.User = removeVisualFromNumber(u.Number),
                                       !.Host = g[1],
                                       !.HierarhicalSlashes = u.HierarhicalSlashes,
                                       !.Params = q]]))

(***************************************************************************)
(* The pair-splitting routine shared by URI params and URI headers.        *)
(* UnmarshalParams(s, seperator, ending, p): the text up to the first      *)
(* `ending` character (or the end) is split on `seperator`; each non-empty *)
(* piece is split on its first '=' (no '=': empty value) and added to p.   *)
(* Returns [n, err, p], n the index of the `ending` character found, or    *)
(* len(s).                                                                 *)
(***************************************************************************)
SplitPair(piece) ==
    LET eq == IndexAny(piece, {"="})
    IN IF eq < 0 THEN Pair(piece, <<>>)
       ELSE Pair(Slice(piece, 0, eq), SliceFrom(piece, eq + 1))

RECURSIVE SplitPieces(_, _)
SplitPieces(s, sep) ==
    LET i == IndexAny(s, {sep})
    IN IF i < 0 THEN <<s>>
       ELSE <<Slice(s, 0, i)>>
            \o With(SliceFrom(s, i + 1), LAMBDA rest : SplitPieces(rest, sep))

UnmarshalParams(s, seperator, ending, p) ==
    LET e      == IndexAny(s, {ending})
        n      == IF e < 0 THEN Len(s) ELSE e
        pieces == SelectSeq(SplitPieces(Slice(s, 0, n), seperator), LAMBDA x : x # <<>>)
        pairs  == [i \in 1..Len(pieces) |-> SplitPair(pieces[i])]
    IN [n |-> n, err |-> NoErr, p |-> Add(p, pairs)]

(***************************************************************************)
(* The SIP URI state machine, uriStateScheme onwards.  A state function    *)
(* returns [next, s, err, uri]: the next state ("nil" ends the loop), the  *)
(* text left, the error and the *SIPURI as the function leaves it.  The    *)
(* texts of the model are ASCII, so the !isASCII(c) exit is never taken.   *)
(***************************************************************************)
Ret(next, s, err, u) == [next |-> next, s |-> s, err |-> err, uri |-> u]

uriStateScheme(u, s) ==
    IF Len(s) < 3
    THEN IF s = <<"*">>
         THEN Ret("nil", <<>>, NoErr, [u EXCEPT !.Host = <<"*">>, !.Wildcard = TRUE])
         ELSE Ret("nil", <<>>, "not valid sip uri", u)
    ELSE LET i == IndexAny(s, {":"})
         IN IF i < 0 THEN Ret("nil", <<>>, "missing protocol scheme", u)
            ELSE LET scheme == detectScheme(ASCIIToLower(Slice(s, 0, i)))
                 IN IF scheme # URISchemeSIP
                    THEN Ret("nil", <<>>, "Invalid scheme", u)
                    ELSE Ret("uriStateSlashes", SliceFrom(s, i + 1), NoErr,
                             [u EXCEPT !.Scheme = scheme])

uriStateSlashes(u, s) ==
    LET cut == CutSlashes(s)
    IN Ret("uriStateUser", cut[1], NoErr, [u EXCEPT !.HierarhicalSlashes = cut[2]])

\* the loop stops at the first '[' or '@'; userend is the index of the
\* last ':' seen before it (0 when none was seen)
uriStateUser(u, s) ==
    LET i == IndexAny(s, {"[", "@"})
    IN IF i < 0 THEN Ret("uriStateHost", s, NoErr, u)
       ELSE IF s[i + 1] = "["
       THEN Ret("uriStateHost", SliceFrom(s, i), NoErr, u)
       ELSE LET colons  == {j \in 0..(i - 1) : s[j + 1] = ":"}
                userend == IF colons = {} THEN 0
                           ELSE CHOOSE j \in colons : \A k \in colons : k <= j
            IN IF userend > 0
               THEN Ret("uriStateHost", SliceFrom(s, i + 1), NoErr,
                        [u EXCEPT !.User = Slice(s, 0, userend),
                                  !.Password = Slice(s, userend + 1, i)])
               ELSE Ret("uriStateHost", SliceFrom(s, i + 1), NoErr,
                        [u EXCEPT !.User = Slice(s, 0, i)])

uriStateHost(u, s) ==
    LET i == IndexAny(s, {"[", ":", ";", "?"})
    IN IF i < 0
       THEN Ret("uriStateUriParams", <<>>, NoErr,
                [u EXCEPT !.Host = s, !.Wildcard = (s = <<"*">>)])
       ELSE CASE s[i + 1] = "[" -> Ret("uriStateHostIPV6", SliceFrom(s, i), NoErr, u)
              [] s[i + 1] = ":" -> Ret("uriStatePort", SliceFrom(s, i + 1), NoErr,
                                      [u EXCEPT !.Host = Slice(s, 0, i)])
              [] s[i + 1] = ";" -> Ret("uriStateUriParams", SliceFrom(s, i + 1), NoErr,
                                      [u EXCEPT !.Host = Slice(s, 0, i)])
              [] s[i + 1] = "?" -> Ret("uriStateHeaders", SliceFrom(s, i + 1), NoErr,
                                      [u EXCEPT !.Host = Slice(s, 0, i)])

\* how far uriStateHostIPV6 looks for the closing bracket
IPV6MaxScan == 42

uriStateHostIPV6(u, s) ==
    LET maxs == Min(Len(s), IPV6MaxScan)
        ind  == IndexAny(Slice(s, 0, maxs), {"]"})
    IN IF ind <= 0 THEN Ret("nil", s, "IPV6 no closing bracket", u)
       ELSE LET u2 == [u EXCEPT !.Host = Slice(s, 0, ind + 1)]
                r  == SliceFrom(s, ind + 1)
            IN IF ind + 1 = Len(s) THEN Ret("uriStateUriParams", <<>>, NoErr, u2)
               ELSE CASE r[1] = ":" -> Ret("uriStatePort", SliceFrom(r, 1), NoErr, u2)
                      [] r[1] = ";" -> Ret("uriStateUriParams", SliceFrom(r, 1), NoErr, u2)
                      [] r[1] = "?" -> Ret("uriStateHeaders", SliceFrom(r, 1), NoErr, u2)
                      [] OTHER -> Ret("uriStateUriParams", <<>>, NoErr, u2)

\* a buggy port state: the port text ends at a second ':' as well
uriStatePortUpToColon(u, s) ==
    LET i == IndexAny(s, {";", "?", ":"})
    IN IF i < 0
       THEN LET a == Atoi(s)
            IN Ret("uriStateUriParams", <<>>, a.err, [u EXCEPT !.Port = a.val])
       ELSE LET a == Atoi(Slice(s, 0, i))
            IN Ret("uriStateUriParams", <<>>, a.err, [u EXCEPT !.Port = a.val])

\* uri.Port, err = strconv.Atoi(...): Port is assigned on an error too
uriStatePort(u, s) ==
    LET i == IndexAny(s, {";", "?"})
    IN IF i < 0
       THEN LET a == Atoi(s)
            IN Ret("uriStateUriParams", <<>>, a.err, [u EXCEPT !.Port = a.val])
       ELSE LET a == Atoi(Slice(s, 0, i))
            IN IF s[i + 1] = ";"
               THEN Ret("uriStateUriParams", SliceFrom(s, i + 1), a.err,
                        [u EXCEPT !.Port = a.val])
               ELSE Ret("uriStateHeaders", SliceFrom(s, i + 1), a.err,
                        [u EXCEPT !.Port = a.val])

uriStateUriParams(u, s) ==
    IF Len(s) = 0
    THEN Ret("nil", s, NoErr, [u EXCEPT !.Params = NewParams, !.Headers = NewParams])
    ELSE With(UnmarshalParams(s, ";", "?", NewParams), LAMBDA r :
           LET u2 == [u EXCEPT !.Params = r.p]
               n  == IF r.n = Len(s) THEN r.n - 1 ELSE r.n
           IN IF r.err # NoErr THEN Ret("nil", s, r.err, u2)
              ELSE IF s[n + 1] # "?" THEN Ret("nil", s, NoErr, u2)
              ELSE Ret("uriStateHeaders", SliceFrom(s, n + 1), NoErr, u2))

\* the ending rune handed to UnmarshalParams is 0, which no text holds
uriStateHeaders(u, s) ==
    With(UnmarshalParams(s, "&", "NUL", NewParams), LAMBDA r :
        Ret("nil", s, r.err, [u EXCEPT !.Headers = r.p]))

sipState(state, u, s) ==
    CASE state = "uriStateScheme"    -> uriStateScheme(u, s)
      [] state = "uriStateSlashes"   -> uriStateSlashes(u, s)
      [] state = "uriStateUser"      -> uriStateUser(u, s)
      [] state = "uriStateHost"      -> uriStateHost(u, s)
      [] state = "uriStateHostIPV6"  -> uriStateHostIPV6(u, s)
      [] state = "uriStatePort"      -> uriStatePort(u, s)
      [] state = "uriStateUriParams" -> uriStateUriParams(u, s)
      [] state = "uriStateHeaders"   -> uriStateHeaders(u, s)

\* the loop `for state != nil` of ParseSIPURI: [err, uri]
RECURSIVE sipLoop(_, _, _)
sipLoop(state, u, s) ==
    IF state = "nil" THEN [err |-> NoErr, uri |-> u]
    ELSE With(sipState(state, u, s), LAMBDA r :
           IF r.err # NoErr THEN [err |-> r.err, uri |-> r.uri]
           ELSE sipLoop(r.next, r.uri, r.s))

\* ParseSIPURI(uriStr, uri): the error and the *SIPURI after the call
ParseSIPURI(str, u) ==
    IF Len(str) = 0 THEN [err |-> "empty URI", uri |-> u]
    ELSE sipLoop("uriStateScheme", u, str)

(***************************************************************************)
(* The TEL URI state machine, telStateScheme onwards.                      *)
(***************************************************************************)
telStateScheme(u, s) ==
    IF Len(s) < 3 THEN Ret("nil", <<>>, "not valid sip uri", u)
    ELSE LET i == IndexAny(s, {":"})
         IN IF i < 0 THEN Ret("nil", <<>>, "missing protocol scheme", u)
            ELSE LET u2 == [u EXCEPT !.Scheme = detectScheme(ASCIIToLower(Slice(s, 0, i)))]
                 IN IF u2.Scheme # URISchemeTEL
                    THEN Ret("nil", <<>>, "not a tel uri sheme", u2)
                    ELSE Ret("telStateSlashes", SliceFrom(s, i + 1), NoErr, u2)

telStateSlashes(u, s) ==
    LET cut == CutSlashes(s)
    IN Ret("telStateNumber", cut[1], NoErr, [u EXCEPT !.HierarhicalSlashes = cut[2]])

isTelChar(c) == IsDigit(c) \/ c \in {"+", "-", ".", "*", "#", ";", "&"}

telStateNumber(u, s) ==
    LET stop == {i \in 0..(Len(s) - 1) : s[i + 1] \in {";", "&"} \/ ~isTelChar(s[i + 1])}
    IN IF stop = {}
       THEN Ret("telStateParams", <<>>, NoErr, [u EXCEPT !.Number = s])
       ELSE LET i == CHOOSE j \in stop : \A k \in stop : j <= k
            IN IF s[i + 1] \in {";", "&"}
               THEN Ret("telStateParams", SliceFrom(s, i + 1), NoErr,
                        [u EXCEPT !.Number = Slice(s, 0, i)])
               ELSE Ret("nil", <<>>, "invalid tel uri number", u)

\* the ending rune handed to UnmarshalParams is the character '0'
telStateParams(u, s) ==
    IF Len(s) = 0 THEN Ret("nil", s, NoErr, [u EXCEPT !.Params = NewParams])
    ELSE With(UnmarshalParams(s, ";", "0", NewParams), LAMBDA r :
           Ret("nil", s, r.err, [u EXCEPT !.Params = r.p]))

telState(state, u, s) ==
    CASE state = "telStateScheme"  -> telStateScheme(u, s)
      [] state = "telStateSlashes" -> telStateSlashes(u, s)
      [] state = "telStateNumber"  -> telStateNumber(u, s)
      [] state = "telStateParams"  -> telStateParams(u, s)

RECURSIVE telLoop(_, _, _)
telLoop(state, u, s) ==
    IF state = "nil" THEN [err |-> NoErr, uri |-> u]
    ELSE With(telState(state, u, s), LAMBDA r :
           IF r.err # NoErr THEN [err |-> r.err, uri |-> r.uri]
           ELSE telLoop(r.next, r.uri, r.s))

\* ParseTELURI(uriStr, uri): the error and the *TELURI after the call
ParseTELURI(str, u) ==
    IF Len(str) = 0 THEN [err |-> "empty URI", uri |-> u]
    ELSE telLoop("telStateScheme", u, str)

(***************************************************************************)
(* ParseURI.                                                               *)
(***************************************************************************)
\* how many leading characters ParseURI looks at for the scheme's ':'
SchemePeek == 4

\* the scheme ParseURI settles on: the loop over the first SchemePeek
\* characters has no break, so the last ':' among them decides
peekScheme(str) ==
    LET l      == Min(Len(str), SchemePeek)
        colons == {i \in 0..(l - 1) : str[i + 1] = ":"}
    IN IF colons = {} THEN URISchemeError
       ELSE detectScheme(Slice(str, 0, CHOOSE i \in colons : \A k \in colons : k <= i))

\* ParseURI(uriStr): [uri, err], uri = NilURI with every error
ParseURI(str) ==
    LET scheme == peekScheme(str)
    IN IF Len(str) < 3 /\ scheme # URISchemeSIP
       THEN [uri |-> NilURI, err |-> "not valid uri scheme"]
       ELSE CASE scheme \in {URISchemeSIP, URISchemeSIPS} ->
                   With(ParseSIPURI(str, [ZeroSIPURI EXCEPT !.Scheme = scheme]), LAMBDA r :
                       IF r.err # NoErr THEN [uri |-> NilURI, err |-> r.err]
                       ELSE [uri |-> r.uri, err |-> NoErr])
              [] scheme = URISchemeTEL ->
                   With(ParseTELURI(str, [ZeroTELURI EXCEPT !.Scheme = scheme]), LAMBDA r :
                       IF r.err # NoErr THEN [uri |-> NilURI, err |-> r.err]
                       ELSE [uri |-> r.uri, err |-> NoErr])
              [] OTHER -> [uri |-> NilURI, err |-> "unsupported uri scheme"]

(***************************************************************************)
(* The name-address state machine (parse_address.go).  A state function    *)
(* returns [next, s, err, a]: the next state, the text left, the error and *)
(* the *NameAddress as the function leaves it.                             *)
(***************************************************************************)
ARet(next, s, err, a) == [next |-> next, s |-> s, err |-> err, a |-> a]

NilAddress == [nil |-> TRUE]

\* strings.TrimSpace, the white space of the model being ' '
RECURSIVE TrimLeft(_)
TrimLeft(s) == IF Len(s) > 0 /\ s[1] = " " THEN TrimLeft(Tail(s)) ELSE s

RECURSIVE TrimRight(_)
TrimRight(s) ==
    IF Len(s) > 0 /\ s[Len(s)] = " " THEN TrimRight(SubSeq(s, 1, Len(s) - 1)) ELSE s

TrimSpace(s) == TrimRight(TrimLeft(s))

\* the URI addressStateUri makes of a text that holds a '*'
WildcardURI == [ZeroSIPURI EXCEPT !.Scheme = URISchemeSIP, !.Host = <<"*">>, !.Wildcard = TRUE]

addressStateDisplayName(a, s) ==
    LET i == IndexAny(s, {"\"", "<", ";"})
    IN IF i < 0 THEN ARet("addressStateUri", s, NoErr, a)
       ELSE CASE s[i + 1] = "\"" ->
                   ARet("addressStateDisplayNameQuoted", SliceFrom(s, i + 1), NoErr, a)
              [] s[i + 1] = "<" ->
                   ARet("addressStateUriBracket", SliceFrom(s, i + 1), NoErr,
                        [a EXCEPT !.DisplayName = TrimSpace(Slice(s, 0, i))])
              [] s[i + 1] = ";" -> ARet("addressStateUri", s, NoErr, a)

\* the scan of the quoted name from index i with the escape flag `escaped`:
\* [kind, at], kind one of "quote" (closing quote at index at), "badescape",
\* "end"
RECURSIVE quotedScan(_, _, _)
quotedScan(s, i, escaped) ==
    IF i >= Len(s) THEN [kind |-> "end", at |-> i]
    ELSE LET c == s[i + 1]
         IN IF c = "\\" THEN quotedScan(s, i + 1, ~escaped)
            ELSE IF escaped
            THEN IF c \in {"LF", "CR"} THEN [kind |-> "badescape", at |-> i]
                 ELSE quotedScan(s, i + 1, FALSE)
            ELSE IF c = "\"" THEN [kind |-> "quote", at |-> i]
            ELSE quotedScan(s, i + 1, escaped)

\* the text with every backslash of a quoted pair dropped
RECURSIVE resolveEscapes(_)
resolveEscapes(s) ==
    IF Len(s) = 0 THEN <<>>
    ELSE IF s[1] = "\\" /\ Len(s) > 1 THEN <<s[2]>> \o resolveEscapes(SliceFrom(s, 2))
    ELSE <<s[1]>> \o resolveEscapes(Tail(s))

\* a quoted-name state that stores the name with its escapes resolved
addressStateDisplayNameQuotedResolved(a, s) ==
    LET q == quotedScan(s, 0, FALSE)
    IN CASE q.kind = "badescape" ->
              ARet("nil", s, "invalid display name, not allowed to escape", a)
         [] q.kind = "end" ->
              ARet("nil", s, "invalid uri display name inside quotes", a)
         [] q.kind = "quote" ->
              LET a2 == [a EXCEPT !.DisplayName = resolveEscapes(Slice(s, 0, q.at))]
                  r  == SliceFrom(s, q.at + 1)
                  j  == IndexAny(r, {"<", ";"})
              IN IF j < 0 THEN ARet("nil", r, "no uri after display name", a2)
                 ELSE IF r[j + 1] = "<"
                 THEN ARet("addressStateUriBracket", SliceFrom(r, j + 1), NoErr, a2)
                 ELSE ARet("addressStateUri", SliceFrom(r, j + 1), NoErr, a2)

\* a quoted-name state that ends the name at the first quote, escaped or not
addressStateDisplayNameQuotedFirstQuote(a, s) ==
    LET i == IndexAny(s, {"\""})
    IN IF i < 0 THEN ARet("nil", s, "invalid uri display name inside quotes", a)
       ELSE LET a2 == [a EXCEPT !.DisplayName = Slice(s, 0, i)]
                r  == SliceFrom(s, i + 1)
                j  == IndexAny(r, {"<", ";"})
            IN IF j < 0 THEN ARet("nil", r, "no uri after display name", a2)
               ELSE IF r[j + 1] = "<"
               THEN ARet("addressStateUriBracket", SliceFrom(r, j + 1), NoErr, a2)
               ELSE ARet("addressStateUri", SliceFrom(r, j + 1), NoErr, a2)

addressStateDisplayNameQuoted(a, s) ==
    LET q == quotedScan(s, 0, FALSE)
    IN CASE q.kind = "badescape" ->
              ARet("nil", s, "invalid display name, not allowed to escape", a)
         [] q.kind = "end" ->
              ARet("nil", s, "invalid uri display name inside quotes", a)
         [] q.kind = "quote" ->
              LET a2 == [a EXCEPT !.DisplayName = Slice(s, 0, q.at)]
                  r  == SliceFrom(s, q.at + 1)
                  j  == IndexAny(r, {"<", ";"})
              IN IF j < 0 THEN ARet("nil", r, "no uri after display name", a2)
                 ELSE IF r[j + 1] = "<"
                 THEN ARet("addressStateUriBracket", SliceFrom(r, j + 1), NoErr, a2)
                 ELSE ARet("addressStateUri", SliceFrom(r, j + 1), NoErr, a2)

addressStateUriBracket(a, s) ==
    IF Len(s) = 0 THEN ARet("nil", s, "no URI present", a)
    ELSE LET i == IndexAny(s, {">"})
         IN IF i < 0 THEN ARet("nil", s, "invalid uri, missing end bracket", a)
            ELSE With(ParseURI(Slice(s, 0, i)), LAMBDA r :
                     ARet("addressStateHeaderParams", SliceFrom(s, i + 1), r.err,
                          [a EXCEPT !.URI = r.uri]))

addressStateUri(a, s) ==
    IF Len(s) = 0 THEN ARet("nil", s, "no URI present", a)
    ELSE LET i == IndexAny(s, {"*", ";"})
         IN IF i < 0
            THEN With(ParseURI(s), LAMBDA r :
                     ARet("nil", s, r.err, [a EXCEPT !.URI = r.uri]))
            ELSE IF s[i + 1] = "*"
            THEN ARet("nil", <<>>, NoErr, [a EXCEPT !.URI = WildcardURI])
            ELSE With(ParseURI(Slice(s, 0, i)), LAMBDA r :
                     ARet("addressStateHeaderParams", SliceFrom(s, i + 1), r.err,
                          [a EXCEPT !.URI = r.uri]))

\* the closure addParam of addressStateHeaderParams: the params after it
addParam(params, equal, seg) ==
    IF equal > 0
    THEN Add(params, <<Pair(Slice(seg, 0, equal), SliceFrom(seg, equal + 1))>>)
    ELSE IF Len(seg) = 0 THEN params
    ELSE Add(params, <<Pair(seg, <<>>)>>)

\* a header-params state that hands its whole text on at a ';'
addressStateHeaderParamsKeepsText(a, s) ==
    IF IndexAny(s, {";"}) < 0 THEN ARet("nil", s, NoErr, a)
    ELSE ARet("addressStateHeaderParams", s, NoErr, a)

\* equal is the index of the last '=' before the first ';' (-1 when none)
addressStateHeaderParams(a, s) ==
    LET i      == IndexAny(s, {";"})
        seg    == IF i < 0 THEN s ELSE Slice(s, 0, i)
        eqs    == {j \in 0..(Len(seg) - 1) : seg[j + 1] = "="}
        equal  == IF eqs = {} THEN -1 ELSE CHOOSE j \in eqs : \A k \in eqs : k <= j
        a2     == [a EXCEPT !.Params = addParam(a.Params, equal, seg)]
    IN IF i < 0 THEN ARet("nil", s, NoErr, a2)
       ELSE ARet("addressStateHeaderParams", SliceFrom(s, i + 1), NoErr, a2)

addressState(state, a, s) ==
    CASE state = "addressStateDisplayName"       -> addressStateDisplayName(a, s)
      [] state = "addressStateDisplayNameQuoted" -> addressStateDisplayNameQuoted(a, s)
      [] state = "addressStateUriBracket"        -> addressStateUriBracket(a, s)
      [] state = "addressStateUri"               -> addressStateUri(a, s)
      [] state = "addressStateHeaderParams"      -> addressStateHeaderParams(a, s)

\* parseNameAddress: the loop `for state != nil`
RECURSIVE parseNameAddress(_, _, _)
parseNameAddress(state, a, s) ==
    IF state = "nil" THEN [err |-> NoErr, a |-> a]
    ELSE With(addressState(state, a, s), LAMBDA r :
           IF r.err # NoErr THEN [err |-> r.err, a |-> r.a]
           ELSE parseNameAddress(r.next, r.a, r.s))

\* ParseAddressValue(addressText): [address, err], address = NilAddress with
\* every error
ParseAddressValue(text) ==
    IF Len(text) = 0 THEN [address |-> NilAddress, err |-> "empty Address"]
    ELSE With(parseNameAddress("addressStateDisplayName",
                  [DisplayName |-> <<>>, URI |-> NilURI, Params |-> NewParams], text),
              LAMBDA r : IF r.err # NoErr THEN [address |-> NilAddress, err |-> r.err]
                         ELSE [address |-> r.a, err |-> NoErr])

(***************************************************************************)
(* The header parsers built on ParseAddressValue.  A result is             *)
(* [kind, address, err, coma]: address is what the header holds after the  *)
(* call, err the message of the error returned (NoErr for nil), coma the   *)
(* index an errComaDetected carries (-1 when the error is not one).        *)
(***************************************************************************)
NoComa == -1

ErrComa == "comma detected"

\* errComaDetected(idx): the error value that carries the index of the comma
errComaDetected(idx) == [err |-> ErrComa, coma |-> idx]

ErrWildcard == "wildcard uri not permitted in to: header"

\* URI.IsWildCard
IsWildCard(u) == u.type = "SIPURI" /\ u.Wildcard

HRet(kind, address, err, coma) ==
    [kind |-> kind, address |-> address, err |-> err, coma |-> coma]

\* parseToHeader(headerText, h)
parseToHeader(headerText) ==
    With(ParseAddressValue(headerText), LAMBDA r :
      IF r.err # NoErr THEN HRet("To", r.address, r.err, NoComa)
      ELSE IF r.address.URI = NilURI
      THEN HRet("To", r.address, "the parsed address is nil", NoComa)
      ELSE IF IsWildCard(r.address.URI)
      THEN HRet("To", r.address, ErrWildcard, NoComa)
      ELSE HRet("To", r.address, NoErr, NoComa))

\* parseFromHeader(headerText, h)
parseFromHeader(headerText) ==
    With(ParseAddressValue(headerText), LAMBDA r :
      IF r.err # NoErr THEN HRet("From", r.address, r.err, NoComa)
      ELSE IF r.address.URI = NilURI
      THEN HRet("From", r.address, "could not parse address", NoComa)
      ELSE IF IsWildCard(r.address.URI)
      THEN HRet("From", r.address, ErrWildcard, NoComa)
      ELSE HRet("From", r.address, NoErr, NoComa))

\* parseReferredByHeader(headerText, h): h.URI.IsWildCard() on a nil URI
\* dereferences nil
parseReferredByHeader(headerText) ==
    With(ParseAddressValue(headerText), LAMBDA r :
      IF r.err # NoErr THEN HRet("Referred-By", r.address, r.err, NoComa)
      ELSE IF r.address.URI = NilURI
      THEN HRet("Referred-By", r.address, ErrNilDereference, NoComa)
      ELSE IF IsWildCard(r.address.URI)
      THEN HRet("Referred-By", r.address, ErrWildcard, NoComa)
      ELSE HRet("Referred-By", r.address, NoErr, NoComa))

\* the loop of parseContactHeader from index idx: [err, coma, endInd]
RECURSIVE contactScan(_, _, _, _)
contactScan(s, idx, inBrackets, inQuotes) ==
    IF idx >= Len(s) THEN [err |-> NoErr, coma |-> NoComa, endInd |-> Len(s)]
    ELSE LET char == s[idx + 1]
         IN IF char = "<" /\ ~inQuotes THEN contactScan(s, idx + 1, TRUE, inQuotes)
            ELSE IF char = ">" /\ ~inQuotes THEN contactScan(s, idx + 1, FALSE, inQuotes)
            ELSE IF char = "\"" THEN contactScan(s, idx + 1, inBrackets, ~inQuotes)
            ELSE IF ~inQuotes /\ ~inBrackets
            THEN IF char = ","
                 THEN [err |-> errComaDetected(idx).err, coma |-> errComaDetected(idx).coma,
                       endInd |-> Len(s)]
                 ELSE IF idx = Len(s) - 1
                 THEN [err |-> NoErr, coma |-> NoComa, endInd |-> idx + 1]
                 ELSE contactScan(s, idx + 1, inBrackets, inQuotes)
            ELSE contactScan(s, idx + 1, inBrackets, inQuotes)

\* parseContactHeader(headerText, h)
parseContactHeader(headerText) ==
    With(contactScan(headerText, 0, FALSE, FALSE), LAMBDA sc :
    With(ParseAddressValue(Slice(headerText, 0, sc.endInd)), LAMBDA r :
      IF r.err # NoErr THEN HRet("Contact", r.address, r.err, NoComa)
      ELSE HRet("Contact", r.address, sc.err, sc.coma)))

\* the body of parseRouteAddress once the scanner stands outside brackets
\* and quotes at a ',' or at the last character: headerText[:idx] is parsed
routeParse(kind, headerText, idx, address, ce) ==
    With(ParseAddressValue(Slice(headerText, 0, idx)), LAMBDA r :
      IF r.err # NoErr THEN HRet(kind, address, r.err, NoComa)
      ELSE IF r.address.URI = NilURI \/ r.address.URI.type # "SIPURI"
      THEN HRet(kind, address, "expected SIPURI", NoComa)
      ELSE HRet(kind, r.address.URI, ce.err, ce.coma))

\* the loop of parseRouteAddress from index idx
RECURSIVE routeScan(_, _, _, _, _, _)
routeScan(kind, s, idx, inBrackets, inQuotes, address) ==
    IF idx >= Len(s) THEN HRet(kind, address, NoErr, NoComa)
    ELSE LET char == s[idx + 1]
         IN IF char = "<" /\ ~inQuotes
            THEN routeScan(kind, s, idx + 1, TRUE, inQuotes, address)
            ELSE LET inB == IF char = ">" /\ ~inQuotes THEN FALSE ELSE inBrackets
                     inQ == IF ~(char = ">" /\ ~inQuotes) /\ char = "\""
                            THEN ~inQuotes ELSE inQuotes
                 IN IF ~inQ /\ ~inB
                    THEN IF char = ","
                         THEN routeParse(kind, s, idx, address, errComaDetected(idx))
                         ELSE IF idx = Len(s) - 1
                         THEN routeParse(kind, s, idx + 1, address,
                                         [err |-> NoErr, coma |-> NoComa])
                         ELSE routeScan(kind, s, idx + 1, inB, inQ, address)
                    ELSE routeScan(kind, s, idx + 1, inB, inQ, address)

\* parseRouteAddress(headerText, address), kind naming the header it fills
parseRouteAddress(kind, headerText, address) ==
    routeScan(kind, headerText, 0, FALSE, FALSE, address)

\* parseRouteHeader, parseRecordRouteHeader, parseReferToHeader on a zero header
parseRouteHeader(headerText) == parseRouteAddress("Route", headerText, ZeroSIPURI)

parseRecordRouteHeader(headerText) ==
    parseRouteAddress("Record-Route", headerText, ZeroSIPURI)

parseReferToHeader(headerText) == parseRouteAddress("Refer-To", headerText, ZeroSIPURI)

(***************************************************************************)
(* The reference insertion-ordered map the HeaderParams is compared to.    *)
(***************************************************************************)
RefHas(r, k) == \E i \in 1..Len(r) : r[i].Key = k

RefPos(r, k) == CHOOSE i \in 1..Len(r) : r[i].Key = k

RefAddOne(r, p) ==
    IF RefHas(r, p.Key)
    THEN [i \in 1..Len(r) |-> IF r[i].Key = p.Key THEN p ELSE r[i]]
    ELSE r \o <<p>>

RECURSIVE RefAdd(_, _)
RefAdd(r, pairs) ==
    IF pairs = <<>> THEN r ELSE RefAdd(RefAddOne(r, Head(pairs)), Tail(pairs))

RefRemove(r, k) == SelectSeq(r, LAMBDA p : p.Key # k)

(***************************************************************************)
(* HeaderParams calls as actions.                                          *)
(***************************************************************************)
AddArgs == SeqsUpTo({Pair(k, v) : k \in ParamKeys, v \in ParamVals}, MaxPairs)

NoCall == [op |-> "none", tgt |-> "", key |-> <<>>, pos |-> -1]

PosOf(h, k) == IF h # NilHP /\ k \in DOMAIN h.keys THEN h.keys[k] ELSE -1

\* hp.Add(pairs...)
AddCall ==
    \E pairs \in AddArgs :
        /\ hp' = Add(hp, pairs)
        /\ ref' = RefAdd(ref, pairs)
        /\ last' = [op |-> "Add", tgt |-> "hp", key |-> pairs[1].Key,
                    pos |-> PosOf(hp, pairs[1].Key)]
        /\ UNCHANGED <<o, uriVars, addrVars, telVars, hdrVars, hsVars, fsm, objVars, byval>>

\* hp.Remove(key)
RemoveCall ==
    \E key \in ParamKeys :
        /\ hp' = Remove(hp, key)
        /\ ref' = RefRemove(ref, key)
        /\ last' = [op |-> "Remove", tgt |-> "hp", key |-> key, pos |-> PosOf(hp, key)]
        /\ UNCHANGED <<o, uriVars, addrVars, telVars, hdrVars, hsVars, fsm, objVars, byval>>

\* o = o.Add(pairs...), o may be nil
AddCallO ==
    \E pairs \in AddArgs :
        /\ o' = Add(o, pairs)
        /\ UNCHANGED <<hp, ref, last, uriVars, addrVars, telVars, hdrVars, hsVars, fsm, objVars, byval>>

\* o.Remove(key), on a non-nil o
RemoveCallO ==
    \E key \in ParamKeys :
        /\ o # NilHP
        /\ o' = Remove(o, key)
        /\ UNCHANGED <<hp, ref, last, uriVars, addrVars, telVars, hdrVars, hsVars, fsm, objVars, byval>>

\* hp.Add(pairs...) with no reference kept (the Equals development)
AddCallA ==
    \E pairs \in AddArgs :
        /\ hp' = Add(hp, pairs)
        /\ UNCHANGED <<o, ref, last, uriVars, addrVars, telVars, hdrVars, hsVars, fsm, objVars, byval>>

\* hp.Remove(key) with no reference kept (the Equals development)
RemoveCallA ==
    \E key \in ParamKeys :
        /\ hp' = Remove(hp, key)
        /\ UNCHANGED <<o, ref, last, uriVars, addrVars, telVars, hdrVars, hsVars, fsm, objVars, byval>>

\* the ';'-led text of a sequence of parameters
RECURSIVE ParamsText(_)
ParamsText(ps) ==
    IF ps = <<>> THEN <<>>
    ELSE <<";">> \o ps[1].Key
         \o (IF ps[1].Val # <<>> THEN <<"=">> \o ps[1].Val ELSE <<>>)
         \o ParamsText(Tail(ps))

(***************************************************************************)
(* The texts handed to the URI parsers: every concatenation of a scheme,   *)
(* a userinfo, a host (or number), a port and a params/headers piece.      *)
(***************************************************************************)
SchemeTexts ==
    { <<"s", "i", "p", ":">>, <<"S", "I", "P", ":">>, <<"s", "I", "p", ":">>,
      <<"s", "i", "p", "s", ":">>, <<"s", "I", "p", "S", ":">>,
      <<"t", "e", "l", ":">>, <<"T", "E", "L", ":">>,
      <<"s", "i", "p", ":", "/", "/">>,
      <<"s", "i", ":">>, <<"*", ":">>, <<>> }

UserTexts ==
    { <<>>, <<"a", "@">>, <<"a", ":", "p", "@">>, <<":", "p", "@">>,
      <<"a", ":", "b", ":", "p", "@">>, <<"@">> }

HostTexts ==
    { <<"h">>, <<>>, <<"*">>, <<"[", ":", ":", "1", "]">>, <<"[", "]">>,
      <<"[", "h">>, <<"h", "]">>, <<"1", "2">> }

PortTexts ==
    { <<>>, <<":", "5">>, <<":">>, <<":", "x">>, <<":", "-", "1">>,
      <<":", "+", "5">>, <<":", "5", ":", "6">> }

TailTexts ==
    { <<>>, <<";", "k">>, <<";", "k", "=", "v">>, <<";", "k", "=", "v", ";", "j">>,
      <<";">>, <<"?", "k", "=", "v">>,
      <<";", "k", "=", "v", "?", "j", "=", "v", "&", "i">>, <<"?">> }

\* the longest content of a bracketed host: eight hextets and seven ':'
IPv6MaxContent == 39

\* n hextets ffff joined by ':'
RECURSIVE Hextets(_)
Hextets(n) ==
    IF n = 1 THEN <<"f", "f", "f", "f">>
    ELSE Hextets(n - 1) \o <<":", "f", "f", "f", "f">>

\* bracket contents of 3, 39, 40, 41 and 49 characters
IPv6Contents ==
    { <<":", ":", "1">>, Hextets(8), Hextets(8) \o <<"f">>,
      Hextets(8) \o <<"f", "f">>, Hextets(10) }

IPv6Texts ==
    { <<"s", "i", "p", ":">> \o us \o <<"[">> \o c \o <<"]">> \o po \o tl :
        us \in {<<>>, <<"a", "@">>}, c \in IPv6Contents,
        po \in {<<>>, <<":", "5">>, <<":", "x">>},
        tl \in {<<>>, <<";", "k", "=", "v">>, <<"?", "k", "=", "v">>, <<"x">>} }

\* telephone numbers, with and without visual separators
TelNumbers ==
    { <<"1", "2">>, <<"+", "1", "-", "2">>,
      <<"+", "1", "-", "(", "2", ")", "-", "3">>, <<"(", "1", ")", "2">> }

\* parameters of a TEL URI
TelParamSeqs ==
    { <<>>,
      <<Pair(<<"E", "x", "t">>, <<"2">>)>>,
      <<Pair(<<"E", "x", "t">>, <<"2">>), Pair(<<"I">>, <<"+", "1", "-", "4">>)>>,
      <<Pair(PhoneContext, <<"d">>)>>,
      <<Pair(PhoneContext, <<>>)>>,
      <<Pair(<<"E", "x", "t">>, <<"2">>), Pair(PhoneContext, <<"d">>),
        Pair(<<"I">>, <<"+", "1", "-", "4">>)>>,
      <<Pair(UserContext, <<"x">>), Pair(PhoneContext, <<"d">>),
        Pair(<<"I">>, <<"+", "1", "-", "4">>)>> }

TelTexts ==
    { <<"t", "e", "l", ":">> \o sl \o num \o ParamsText(ps) :
        sl \in {<<>>, <<"/", "/">>}, num \in TelNumbers, ps \in TelParamSeqs }

URIInputs ==
    { sc \o us \o ho \o po \o tl :
        sc \in SchemeTexts, us \in UserTexts, ho \in HostTexts,
        po \in PortTexts, tl \in TailTexts }
    \cup IPv6Texts \cup TelTexts

(***************************************************************************)
(* The texts handed to ParseAddressValue, kept as their parts: a display   *)
(* name, the addr-spec with or without angle brackets, the parameters      *)
(* written inside the brackets and the parameters written after the URI.   *)
(***************************************************************************)
DispTexts ==
    { <<>>, <<"B", "o", "b", " ">>, <<"\"", "B", "o", "b", "\"", " ">>,
      <<"\"", "B", "\\", "\"", "b", "\"">>, <<"\"", "B", "\\", "\\", "\"">>,
      <<"\"", "B">>, <<"\"", "B", "\"">> }

CoreTexts ==
    { <<"s", "i", "p", ":", "h">>, <<"s", "i", "p", ":", "a", "@", "h">>,
      <<"s", "i", "p", ":", "*", "1", "@", "h">>,
      <<"s", "i", "p", "s", ":", "a", "@", "h">>,
      <<"t", "e", "l", ":", "1", "2">>, <<"*">>,
      <<"s", "i", "p", ":", "h", ":", "x">>,
      <<"s", "i", "p", ":", "h", ":", "5", ":", "6">>, <<"t", "=", "1">>, <<>> }

InsideParams ==
    { <<>>, <<Pair(<<"u">>, <<"1">>)>>,
      <<Pair(<<"u">>, <<"1">>), Pair(<<"l", "r">>, <<>>)>> }

AfterParams ==
    { <<>>, <<Pair(<<"t", "a", "g">>, <<"2">>)>>,
      <<Pair(<<"l", "r">>, <<>>), Pair(<<"t", "a", "g">>, <<"2">>)>>,
      <<Pair(<<"u">>, <<"3">>)>>, <<Pair(<<"k">>, <<"v", "=", "w">>)>> }

NoAddrIn ==
    [disp |-> <<>>, bracket |-> FALSE, core |-> <<>>, inside |-> <<>>, after |-> <<>>,
     closed |-> TRUE]

\* an address with angle brackets (closed or not), or one without; only the
\* bracketed form has a place for URI parameters
AddrInputs ==
    [disp : DispTexts, bracket : {TRUE}, core : CoreTexts, inside : InsideParams,
     after : AfterParams, closed : BOOLEAN]
    \cup
    [disp : {<<>>, <<"\"", "B", "o", "b", "\"", ";">>}, bracket : {FALSE},
     core : CoreTexts, inside : {<<>>}, after : AfterParams, closed : {TRUE}]

AddrText(in) ==
    in.disp
    \o (IF in.bracket
        THEN <<"<">> \o in.core \o ParamsText(in.inside)
             \o (IF in.closed THEN <<">">> ELSE <<>>)
        ELSE in.core)
    \o ParamsText(in.after)

(***************************************************************************)
(* The parser calls.                                                       *)
(***************************************************************************)
\* uri, err := ParseURI(uriStr)
ParseURICall ==
    /\ pc = "start"
    /\ uri' = ParseURI(uriStr)
    /\ pc' = "ParseURI"
    /\ UNCHANGED <<hpVars, uriStr, out, outErr, uri2, addrVars, telVars, hdrVars, hsVars, fsm, objVars, byval>>

\* uri2, err := ParseURI(uri.String()), on the URI a ParseURI call returned
StringReparse ==
    /\ pc = "ParseURI"
    /\ uri.err = NoErr
    /\ uri2' = ParseURI(URIString(uri.uri))
    /\ pc' = "Reparsed"
    /\ UNCHANGED <<hpVars, uriStr, uri, out, outErr, addrVars, telVars, hdrVars, hsVars, fsm, objVars, byval>>

\* out := SIPURI{}; err := ParseSIPURI(uriStr, &out)
ParseSIPURICall ==
    /\ pc = "start"
    /\ \E r \in {ParseSIPURI(uriStr, ZeroSIPURI)} : out' = r.uri /\ outErr' = r.err
    /\ pc' = "ParseSIPURI"
    /\ UNCHANGED <<hpVars, uriStr, uri, uri2, addrVars, telVars, hdrVars, hsVars, fsm, objVars, byval>>

\* out := TELURI{}; err := ParseTELURI(uriStr, &out)
ParseTELURICall ==
    /\ pc = "start"
    /\ \E r \in {ParseTELURI(uriStr, ZeroTELURI)} : out' = r.uri /\ outErr' = r.err
    /\ pc' = "ParseTELURI"
    /\ UNCHANGED <<hpVars, uriStr, uri, uri2, addrVars, telVars, hdrVars, hsVars, fsm, objVars, byval>>

\* address, err := ParseAddressValue(addressText)
ParseAddressValueCall ==
    /\ apc = "start"
    /\ addr' = ParseAddressValue(AddrText(addrIn))
    /\ apc' = "done"
    /\ UNCHANGED <<hpVars, uriVars, addrIn, telVars, hdrVars, hsVars, fsm, objVars, byval>>

InitHP ==
    /\ hp = NewParams
    /\ o = NilHP
    /\ ref = <<>>
    /\ last = NoCall

InitURIIdle ==
    /\ uriStr = <<>>
    /\ pc = "idle"
    /\ uri = [uri |-> NilURI, err |-> NoErr]
    /\ out = NilURI
    /\ outErr = NoErr
    /\ uri2 = [uri |-> NilURI, err |-> NoErr]

InitAddrIdle ==
    /\ addrIn = NoAddrIn
    /\ addr = [address |-> NilAddress, err |-> NoErr]
    /\ apc = "idle"

NilPtr == "nil"

Unalloc == [free |-> TRUE]

NoObjCall == [op |-> "none", tgt |-> "", on |-> "", pairs |-> <<>>]

Tasks == {"t1", "t2"}

NoRead == [op |-> "none", arg |-> "", val |-> ""]

InitObjIdle ==
    /\ recv = NilPtr
    /\ heap = [x |-> Unalloc, y |-> Unalloc]
    /\ dup = NilPtr
    /\ olast = NoObjCall
    /\ res = [t \in Tasks |-> NoRead]

NoHeader == HRet("none", NilAddress, NoErr, NoComa)

NoFsm == [kind |-> "none", state |-> "nil", s |-> <<>>, err |-> "", obj |-> <<>>,
          from |-> "", fromLen |-> 0]

InitFsmIdle == fsm = NoFsm

\* no URI whose map is handed out by value
NoByval ==
    [keys |-> EmptyKeys, arrs |-> <<<<>>, <<>>>>, u |-> [arr |-> 0, len |-> 0],
     p |-> [arr |-> 0, len |-> 0], last |-> "none", fault |-> FALSE]

InitByvalIdle == byval = NoByval

InitHsIdle ==
    /\ headerOrder = <<>>
    /\ via = <<>>
    /\ contact = <<>>
    /\ hsLast = "none"
    /\ hsRes = <<>>

InitTelIdle ==
    /\ tel = NilURI
    /\ telBefore = NilURI
    /\ sip = NilURI
    /\ sipBefore = NilURI
    /\ telErr = NoErr
    /\ tpc = "idle"

InitHdrIdle ==
    /\ hdrText = <<>>
    /\ hdr = NoHeader
    /\ hpc = "idle"

Init == InitHP /\ InitURIIdle /\ InitAddrIdle /\ InitTelIdle /\ InitHdrIdle /\ InitObjIdle /\ InitHsIdle /\ InitFsmIdle /\ InitByvalIdle

Next == AddCall \/ RemoveCall

\* one HeaderParams from NewParams() under Add and Remove, with its reference
Spec == Init /\ [][Next]_vars

NextEq == AddCallA \/ RemoveCallA \/ AddCallO \/ RemoveCallO

\* two HeaderParams, the receiver and the argument of Equals
SpecEq == Init /\ [][NextEq]_vars

\* a URI text waiting for the parsers
InitURI ==
    /\ uriStr \in URIInputs
    /\ pc = "start"
    /\ uri = [uri |-> NilURI, err |-> NoErr]
    /\ out = NilURI
    /\ outErr = NoErr
    /\ uri2 = [uri |-> NilURI, err |-> NoErr]

\* an address text waiting for ParseAddressValue
InitAddr ==
    /\ addrIn \in AddrInputs
    /\ addr = [address |-> NilAddress, err |-> NoErr]
    /\ apc = "start"

InitParse ==
    /\ InitHP
    /\ (InitURI /\ InitAddrIdle) \/ (InitURIIdle /\ InitAddr)
    /\ InitTelIdle
    /\ InitHdrIdle
    /\ InitObjIdle /\ InitHsIdle /\ InitFsmIdle /\ InitByvalIdle

NextParse ==
    \/ ParseURICall
    \/ StringReparse
    \/ ParseSIPURICall
    \/ ParseTELURICall
    \/ ParseAddressValueCall

\* the parsers applied to one text each
SpecParse == InitParse /\ [][NextParse]_vars

\* TEL URIs as a parse or a struct literal leaves them (Params nil when the
\* literal names none)
TelURIs ==
    { [ZeroTELURI EXCEPT !.Scheme = URISchemeTEL, !.HierarhicalSlashes = sl,
                         !.Number = num, !.Params = pp] :
        sl \in BOOLEAN, num \in TelNumbers,
        pp \in {NilHP} \cup {Add(NewParams, ps) : ps \in TelParamSeqs} }

\* the out-parameter: a zero SIPURI, or one that already holds values
SipOuts ==
    { ZeroSIPURI,
      [ZeroSIPURI EXCEPT !.User = <<"a">>, !.Host = <<"h">>, !.Port = 5,
                         !.Params = Add(NewParams, <<Pair(<<"k">>, <<"v">>)>>)] }

InitTel ==
    /\ tel \in TelURIs
    /\ telBefore = tel
    /\ sip \in SipOuts
    /\ sipBefore = sip
    /\ telErr = NoErr
    /\ tpc = "start"

\* err := tel.TELtoSIP(&sip)
TELtoSIPCall ==
    /\ tpc = "start"
    /\ \E r \in {TELtoSIP(tel, sip)} :
           tel' = r.tel /\ sip' = r.sip /\ telErr' = r.err
    /\ tpc' = "TELtoSIP"
    /\ UNCHANGED <<hpVars, uriVars, addrVars, telBefore, sipBefore, hdrVars, hsVars, fsm, objVars, byval>>

InitTelConv ==
    InitHP /\ InitURIIdle /\ InitAddrIdle /\ InitTel /\ InitHdrIdle /\ InitObjIdle /\ InitHsIdle /\ InitFsmIdle /\ InitByvalIdle

NextTel == TELtoSIPCall

\* TELtoSIP applied once to a TEL URI
SpecTel == InitTelConv /\ [][NextTel]_vars

\* the first name-address of a header line
FirstAddrTexts ==
    { <<"*">>,
      <<"<", "s", "i", "p", ":", "h", ">">>,
      <<"s", "i", "p", ":", "h">>,
      <<"<", "s", "i", "p", ":", "a", "@", "h", ">", ";", "q", "=", "1">>,
      <<"B", " ", "<", "s", "i", "p", ":", "h", ">", ";", "t", "=", "2">>,
      <<"\"", "a", ",", "b", "\"", " ", "<", "s", "i", "p", ":", "h", ">">>,
      <<"\"", "a", "\\", "\"", "b", ",", "c", "\"", " ", "<", "s", "i", "p", ":", "h", ">">>,
      <<"<", "s", "i", "p", ":", "h", ",", "x", ">">>,
      <<"<", "s", "i", "p", ":", "h">>,
      <<"\"", "B">>,
      <<>>,
      <<"<", "t", "e", "l", ":", "1", "2", ">">>,
      <<"<", "s", "i", "p", ":", "*", ">">>,
      <<"<", "s", "i", "p", ":", "h", ";", "u", "=", "1", ">">>,
      <<"B">> }

\* what follows the first name-address on the line
RestTexts ==
    { <<>>,
      <<",", "<", "s", "i", "p", ":", "b", ">">>,
      <<",", " ", "<", "s", "i", "p", ":", "b", ">", ";", "k", "=", "v">>,
      <<",">> }

HeaderTexts == { f \o r : f \in FirstAddrTexts, r \in RestTexts }

InitHdr ==
    /\ hdrText \in HeaderTexts
    /\ hdr = NoHeader
    /\ hpc = "start"

\* one header parser applied to hdrText
HeaderCall(result) ==
    /\ hpc = "start"
    /\ hdr' = result
    /\ hpc' = "done"
    /\ UNCHANGED <<hpVars, uriVars, addrVars, telVars, hdrText, hsVars, fsm, objVars, byval>>

parseToHeaderCall == HeaderCall(parseToHeader(hdrText))

parseFromHeaderCall == HeaderCall(parseFromHeader(hdrText))

parseReferredByHeaderCall == HeaderCall(parseReferredByHeader(hdrText))

parseContactHeaderCall == HeaderCall(parseContactHeader(hdrText))

parseRouteHeaderCall == HeaderCall(parseRouteHeader(hdrText))

parseRecordRouteHeaderCall == HeaderCall(parseRecordRouteHeader(hdrText))

parseReferToHeaderCall == HeaderCall(parseReferToHeader(hdrText))

InitHeaders ==
    InitHP /\ InitURIIdle /\ InitAddrIdle /\ InitTelIdle /\ InitHdr /\ InitObjIdle /\ InitHsIdle /\ InitFsmIdle /\ InitByvalIdle

NextHdr ==
    \/ parseToHeaderCall
    \/ parseFromHeaderCall
    \/ parseReferredByHeaderCall
    \/ parseContactHeaderCall
    \/ parseRouteHeaderCall
    \/ parseRecordRouteHeaderCall
    \/ parseReferToHeaderCall

\* one header parser applied to one header text
SpecHdr == InitHeaders /\ [][NextHdr]_vars

(***************************************************************************)
(* HeaderParams behind pointers: Add, Remove and Clone on two pointer      *)
(* variables, so that two variables naming one object is a state.          *)
(***************************************************************************)
\* keys and pair lists the calls on recv and dup draw from
ObjKeys == {<<"a">>, <<"b">>}

ObjArgs == SeqsUpTo({Pair(k, v) : k \in ObjKeys, v \in ParamVals}, MaxPairs)

\* what a pointer leads to
Deref(hs, ptr) == IF ptr = NilPtr THEN NilHP ELSE hs[ptr]

\* what kind of receiver a call finds
OnWhat(hs, ptr) ==
    IF ptr = NilPtr THEN "nil" ELSE IF IsZeroValue(hs[ptr]) THEN "zero" ELSE "obj"

\* a Clone that hands out the receiver itself
CloneSameObject(hs, r) == [heap |-> hs, ptr |-> r]

\* r.Clone(): the copy is a new object
Clone(hs, r) == [heap |-> [hs EXCEPT !["y"] = clone(hs[r])], ptr |-> "y"]

InitObj ==
    /\ recv \in {NilPtr, "x"}
    /\ heap \in {[x |-> v, y |-> Unalloc] :
                   v \in IF recv = NilPtr THEN {Unalloc} ELSE {NewParams, ZeroHP}}
    /\ dup = NilPtr
    /\ olast = NoObjCall
    /\ res = [t \in Tasks |-> NoRead]

\* recv = recv.Add(pairs...), recv may be nil or point to a zero value
ObjAddRecv ==
    \E pairs \in ObjArgs :
        /\ heap' = [heap EXCEPT !["x"] = Add(Deref(heap, recv), pairs)]
        /\ recv' = "x"
        /\ olast' = [op |-> "Add", tgt |-> "recv", on |-> OnWhat(heap, recv),
                     pairs |-> IF OnWhat(heap, recv) = "obj" THEN <<>> ELSE pairs]
        /\ UNCHANGED <<hpVars, uriVars, addrVars, telVars, hdrVars, hsVars, fsm, dup, res, byval>>

\* dup.Add(pairs...) on the clone
ObjAddDup ==
    \E pairs \in ObjArgs :
        /\ dup # NilPtr
        /\ heap' = [heap EXCEPT ![dup] = Add(heap[dup], pairs)]
        /\ olast' = [op |-> "Add", tgt |-> "dup", on |-> "obj", pairs |-> <<>>]
        /\ UNCHANGED <<hpVars, uriVars, addrVars, telVars, hdrVars, hsVars, fsm, recv, dup, res, byval>>

\* recv.Remove(key), recv not nil
ObjRemoveRecv ==
    \E key \in ObjKeys :
        /\ recv # NilPtr
        /\ heap' = [heap EXCEPT ![recv] = Remove(heap[recv], key)]
        /\ olast' = [op |-> "Remove", tgt |-> "recv", on |-> OnWhat(heap, recv),
                     pairs |-> <<>>]
        /\ UNCHANGED <<hpVars, uriVars, addrVars, telVars, hdrVars, hsVars, fsm, recv, dup, res, byval>>

\* dup.Remove(key) on the clone
ObjRemoveDup ==
    \E key \in ObjKeys :
        /\ dup # NilPtr
        /\ heap' = [heap EXCEPT ![dup] = Remove(heap[dup], key)]
        /\ olast' = [op |-> "Remove", tgt |-> "dup", on |-> "obj", pairs |-> <<>>]
        /\ UNCHANGED <<hpVars, uriVars, addrVars, telVars, hdrVars, hsVars, fsm, recv, dup, res, byval>>

\* dup = recv.Clone(), recv not nil
ObjClone ==
    /\ recv # NilPtr
    /\ \E r \in {Clone(heap, recv)} : heap' = r.heap /\ dup' = r.ptr
    /\ olast' = [op |-> "Clone", tgt |-> "recv", on |-> OnWhat(heap, recv), pairs |-> <<>>]
    /\ UNCHANGED <<hpVars, uriVars, addrVars, telVars, hdrVars, hsVars, fsm, recv, res, byval>>

InitObjects ==
    InitHP /\ InitURIIdle /\ InitAddrIdle /\ InitTelIdle /\ InitHdrIdle /\ InitObj /\ InitHsIdle /\ InitFsmIdle /\ InitByvalIdle

NextObj == ObjAddRecv \/ ObjAddDup \/ ObjRemoveRecv \/ ObjRemoveDup \/ ObjClone

\* Add, Remove and Clone from NewParams(), a nil pointer or HeaderParams{}
SpecObj == InitObjects /\ [][NextObj]_vars

(***************************************************************************)
(* The read-only calls of one HeaderParams made by several tasks.          *)
(***************************************************************************)
\* the maps the tasks read
ReadInstances == {NewParams, ZeroHP} \cup {AddLoop(NewParams, ps) : ps \in ObjArgs}

Separators == {";", "&", "?", "0x7F", "0x80", "0xFF"}

\* the read-only calls that take a key
KeyReads == {[op |-> op, arg |-> k] : op \in {"Get", "Has"}, k \in ObjKeys}

\* the other read-only calls: ToString(sep), ToStringWrite(sep, buffer) with an
\* empty buffer, Equals(o) and those without argument
OtherReads ==
    {[op |-> op, arg |-> sep] : op \in {"ToString", "ToStringWrite"}, sep \in Separators}
    \cup {[op |-> "Equals", arg |-> ptr] : ptr \in {NilPtr, "x", "y"}}
    \cup {[op |-> op, arg |-> ""] : op \in {"Keys", "Length", "String", "Clone"}}

\* a read that empties the receiver's data once it has rendered it
ReadDrains(hs, r, c) ==
    CASE c.op = "Get"      -> [heap |-> hs, val |-> Get(hs[r], c.arg)]
      [] c.op = "Has"      -> [heap |-> hs, val |-> Has(hs[r], c.arg)]
      [] c.op = "Keys"     -> [heap |-> hs, val |-> Keys(hs[r])]
      [] c.op = "Length"   -> [heap |-> hs, val |-> Length(hs[r])]
      [] c.op = "ToString" -> [heap |-> [hs EXCEPT ![r] = NewParams],
                               val |-> ParamsToString(hs[r], c.arg)]
      [] c.op = "String"   -> [heap |-> hs, val |-> ParamsToString(hs[r], "&")]
      [] c.op = "ToStringWrite" -> [heap |-> hs, val |-> ToStringWrite(hs[r], c.arg, <<>>)]
      [] c.op = "Equals"   -> [heap |-> hs, val |-> Equals(hs[r], Deref(hs, c.arg))]
      [] c.op = "Clone"    -> [heap |-> Clone(hs, r).heap, val |-> Clone(hs, r).ptr]

\* call c on the object r: [heap, val].  Every call reads hp.keys and hp.data
\* and writes locals only; Clone fills a new object.
Read(hs, r, c) ==
    CASE c.op = "Get"      -> [heap |-> hs, val |-> Get(hs[r], c.arg)]
      [] c.op = "Has"      -> [heap |-> hs, val |-> Has(hs[r], c.arg)]
      [] c.op = "Keys"     -> [heap |-> hs, val |-> Keys(hs[r])]
      [] c.op = "Length"   -> [heap |-> hs, val |-> Length(hs[r])]
      [] c.op = "ToString" -> [heap |-> hs, val |-> ParamsToString(hs[r], c.arg)]
      [] c.op = "String"   -> [heap |-> hs, val |-> ParamsToString(hs[r], "&")]
      [] c.op = "ToStringWrite" -> [heap |-> hs, val |-> ToStringWrite(hs[r], c.arg, <<>>)]
      [] c.op = "Equals"   -> [heap |-> hs, val |-> Equals(hs[r], Deref(hs, c.arg))]
      [] c.op = "Clone"    -> [heap |-> Clone(hs, r).heap, val |-> Clone(hs, r).ptr]

InitRead ==
    /\ recv = "x"
    /\ heap \in {[x |-> v, y |-> Unalloc] : v \in ReadInstances}
    /\ dup = NilPtr
    /\ olast = NoObjCall
    /\ res = [t \in Tasks |-> NoRead]

\* task t makes the read-only call c on recv
ReadStep(t, c) ==
    /\ IF c.op = "Equals" /\ c.arg # NilPtr THEN heap[c.arg] # Unalloc ELSE TRUE
    /\ \E r \in {Read(heap, recv, c)} :
          /\ heap' = r.heap
          /\ res' = [res EXCEPT ![t] = [op |-> c.op, arg |-> c.arg, val |-> r.val]]
          /\ dup' = IF c.op = "Clone" THEN r.val ELSE dup
    /\ UNCHANGED <<hpVars, uriVars, addrVars, telVars, hdrVars, hsVars, fsm, recv, olast, byval>>

ReadCall(t) ==
    \/ \E c \in KeyReads : ReadStep(t, c)
    \/ \E c \in OtherReads : ReadStep(t, c)

InitReaders ==
    InitHP /\ InitURIIdle /\ InitAddrIdle /\ InitTelIdle /\ InitHdrIdle /\ InitRead /\ InitHsIdle /\ InitFsmIdle /\ InitByvalIdle

NextRead == \E t \in Tasks : ReadCall(t)

\* tasks reading one HeaderParams that no task changes
SpecRead == InitReaders /\ [][NextRead]_vars

(***************************************************************************)
(* The headers container: headerOrder with the cached references via and   *)
(* contact.  headers.go is not among the sources; AppendHeader,            *)
(* PrependHeader, GetHeader, GetHeaders and the typed accessors follow     *)
(* section 4.4 of the specification, the rendering follows                 *)
(* TestHeaders_String and the clearing of a cache field follows            *)
(* BenchmarkLazyParsing.                                                   *)
(***************************************************************************)
\* largest number of headers in the container
MaxHeaders == 4

CRLF == <<"\r", "\n">>

NewHeader(name, value) == [name |-> name, value |-> value]

ViaName == <<"V", "i", "a">>

ContactName == <<"C", "o", "n", "t", "a", "c", "t">>

\* the header instances the calls draw from; one instance may be inserted twice
HeaderPool ==
    { NewHeader(ViaName, <<"1">>),
      NewHeader(<<"v", "i", "a">>, <<"2">>),
      NewHeader(<<"F", "r", "o", "m">>, <<"a", ":", "b">>),
      NewHeader(<<"T", "o">>, <<>>),
      NewHeader(<<"X">>, <<"3">>),
      NewHeader(ContactName, <<"c">>) }

\* names GetHeader and GetHeaders are asked for
LookupNames == {<<"v", "i", "a">>, <<"V", "I", "A">>, <<"t", "o">>, <<"x">>, <<"R", "o", "u", "t", "e">>}

\* a container value: the three fields of headers the model keeps
Hs(order, v, c) == [order |-> order, via |-> v, contact |-> c]

\* Header.String(): "Name: value"
HeaderString(h) == h.name \o <<":", " ">> \o h.value

RECURSIVE StringWrite(_, _)
StringWrite(order, i) ==
    IF i > Len(order) THEN CRLF
    ELSE (IF i > 1 THEN CRLF ELSE <<>>) \o HeaderString(order[i]) \o StringWrite(order, i + 1)

\* a String() that leaves out the closing line end
HeadersStringNoEnd(order) ==
    IF order = <<>> THEN <<>>
    ELSE SubSeq(StringWrite(order, 1), 1, Len(StringWrite(order, 1)) - 2)

\* headers.String()
HeadersString(order) == StringWrite(order, 1)

RECURSIVE getHeaderFrom(_, _, _)
getHeaderFrom(order, nameLower, i) ==
    IF i > Len(order) THEN <<>>
    ELSE IF ASCIIToLower(order[i].name) = nameLower THEN <<order[i]>>
    ELSE getHeaderFrom(order, nameLower, i + 1)

\* headers.GetHeader(name): <<>> for nil
GetHeader(order, name) == getHeaderFrom(order, ASCIIToLower(name), 1)

\* headers.GetHeaders(name)
GetHeaders(order, name) ==
    SelectSeq(order, LAMBDA h : ASCIIToLower(h.name) = ASCIIToLower(name))

\* an AppendHeader that inserts at the start
AppendHeaderAtStart(hs, h) == [hs EXCEPT !.order = <<h>> \o hs.order]

\* headers.AppendHeader(h): a cached first match stays
AppendHeader(hs, h) == [hs EXCEPT !.order = Append(hs.order, h)]

\* a PrependHeader that leaves the cached references alone
PrependHeaderStaleCache(hs, h) == [hs EXCEPT !.order = <<h>> \o hs.order]

\* headers.PrependHeader(h): h becomes the cached instance of a cached type
PrependHeader(hs, h) ==
    [order |-> <<h>> \o hs.order,
     via |-> IF ASCIIToLower(h.name) = ASCIIToLower(ViaName) /\ hs.via # <<>>
             THEN <<h>> ELSE hs.via,
     contact |-> IF ASCIIToLower(h.name) = ASCIIToLower(ContactName) /\ hs.contact # <<>>
                 THEN <<h>> ELSE hs.contact]

\* headers.Via(): the cached reference, else the first Via of a scan, cached
Via(hs) ==
    IF hs.via # <<>> THEN [hs |-> hs, ret |-> hs.via]
    ELSE With(GetHeader(hs.order, ViaName),
              LAMBDA f : [hs |-> [hs EXCEPT !.via = f], ret |-> f])

\* headers.Contact()
Contact(hs) ==
    IF hs.contact # <<>> THEN [hs |-> hs, ret |-> hs.contact]
    ELSE With(GetHeader(hs.order, ContactName),
              LAMBDA f : [hs |-> [hs EXCEPT !.contact = f], ret |-> f])

\* what a call leaves in the container's variables
HsCall(op, hs, ret) ==
    /\ headerOrder' = hs.order
    /\ via' = hs.via
    /\ contact' = hs.contact
    /\ hsLast' = op
    /\ hsRes' = ret
    /\ UNCHANGED <<hpVars, uriVars, addrVars, telVars, hdrVars, objVars, fsm, byval>>

AppendHeaderCall ==
    /\ Len(headerOrder) < MaxHeaders
    /\ \E h \in HeaderPool :
         HsCall("AppendHeader", AppendHeader(Hs(headerOrder, via, contact), h), <<>>)

PrependHeaderCall ==
    /\ Len(headerOrder) < MaxHeaders
    /\ \E h \in HeaderPool :
         HsCall("PrependHeader", PrependHeader(Hs(headerOrder, via, contact), h), <<>>)

ViaCall ==
    \E r \in {Via(Hs(headerOrder, via, contact))} : HsCall("Via", r.hs, r.ret)

ContactCall ==
    \E r \in {Contact(Hs(headerOrder, via, contact))} : HsCall("Contact", r.hs, r.ret)

\* headers.via = nil
ClearVia ==
    /\ via # <<>>
    /\ HsCall("clear", Hs(headerOrder, <<>>, contact), <<>>)

\* headers.contact = nil
ClearContact ==
    /\ contact # <<>>
    /\ HsCall("clear", Hs(headerOrder, via, <<>>), <<>>)

InitContainer ==
    InitHP /\ InitURIIdle /\ InitAddrIdle /\ InitTelIdle /\ InitHdrIdle /\ InitObjIdle /\ InitHsIdle /\ InitFsmIdle /\ InitByvalIdle

NextHs ==
    \/ AppendHeaderCall
    \/ PrependHeaderCall
    \/ ViaCall
    \/ ContactCall
    \/ ClearVia
    \/ ClearContact

\* one headers container, from new(headers), under its calls
SpecHs == InitContainer /\ [][NextHs]_vars

(***************************************************************************)
(* (u *SIPURI) Clone() and (u *TELURI) Clone(): c := *u copies the two     *)
(* pointers Params and Headers; a map is replaced by a clone of its own    *)
(* only when its Length() is above zero.  Length has a value receiver, so  *)
(* the call on a nil pointer dereferences nil.  The result names, for each *)
(* map of the copy, whether it is an object of its own or the original's.  *)
(***************************************************************************)
URIClone(u) ==
    IF u.Params = NilHP \/ (u.type = "SIPURI" /\ u.Headers = NilHP)
    THEN [err |-> ErrNilDereference, c |-> NilURI, ownParams |-> FALSE, ownHeaders |-> FALSE]
    ELSE [err |-> NoErr,
          c |-> IF u.type = "SIPURI" /\ Length(u.Headers) > 0
                THEN [u EXCEPT !.Params = IF Length(u.Params) > 0 THEN clone(u.Params)
                                          ELSE u.Params,
                               !.Headers = clone(u.Headers)]
                ELSE [u EXCEPT !.Params = IF Length(u.Params) > 0 THEN clone(u.Params)
                                          ELSE u.Params],
          ownParams  |-> Length(u.Params) > 0,
          ownHeaders |-> u.Headers = NilHP \/ (u.type = "SIPURI" /\ Length(u.Headers) > 0)]

(***************************************************************************)
(* The driving loops of ParseSIPURI, ParseTELURI and parseNameAddress, one *)
(* call of a state function per step.                                      *)
(***************************************************************************)
FsmStart(kind, state, text, obj) ==
    [kind |-> kind, state |-> state, s |-> text, err |-> NoErr, obj |-> obj,
     from |-> "", fromLen |-> Len(text)]

\* what one pass of `for state != nil` leaves: r is what the state function returned
FsmNext(r, obj) ==
    [kind |-> fsm.kind, state |-> r.next, s |-> r.s, err |-> r.err, obj |-> obj,
     from |-> fsm.state, fromLen |-> Len(fsm.s)]

\* the URI texts and the address texts the loops are run on
LoopURITexts ==
    { <<"s", "i", "p", ":">> \o us \o ho \o po \o tl :
        us \in {<<>>, <<"a", ":", "p", "@">>},
        ho \in {<<"h">>, <<"*">>, <<"[", ":", ":", "1", "]">>, <<"[", "h">>},
        po \in {<<>>, <<":", "5">>, <<":", "x">>},
        tl \in {<<>>, <<";", "k", "=", "v", ";", "j">>, <<"?", "k", "=", "v">>,
                <<";", "k", "=", "v", "?", "j", "=", "v", "&", "i">>, <<"x">>} }
    \cup { <<"t", "e", "l", ":">> \o sl \o num \o ParamsText(ps) :
             sl \in {<<>>, <<"/", "/">>}, num \in {<<"+", "1", "-", "2">>, <<"(", "1", ")", "2">>},
             ps \in TelParamSeqs }
    \cup {<<>>, <<"*">>, <<"s", "i", "p">>}

LoopAddrInputs ==
    { in \in AddrInputs :
        /\ in.inside = <<>> /\ in.closed
        /\ in.core \in { <<"s", "i", "p", ":", "a", "@", "h">>, <<"*">>,
                         <<"s", "i", "p", ":", "h", ":", "x">>, <<>> }
        /\ in.after \notin {<<Pair(<<"t", "a", "g">>, <<"2">>)>>, <<Pair(<<"u">>, <<"3">>)>>} }

\* a call of ParseSIPURI, ParseTELURI or parseNameAddress: the loop's variables
\* before the first pass
StartLoop(start) ==
    /\ fsm.kind = "none"
    /\ fsm' = start
    /\ UNCHANGED <<hpVars, uriVars, addrVars, telVars, hdrVars, hsVars, objVars, byval>>

ParseSIPURIStart ==
    \E str \in LoopURITexts :
        StartLoop(IF Len(str) = 0
                  THEN [FsmStart("sip", "nil", str, ZeroSIPURI) EXCEPT !.err = "empty URI"]
                  ELSE FsmStart("sip", "uriStateScheme", str, ZeroSIPURI))

ParseTELURIStart ==
    \E str \in LoopURITexts :
        StartLoop(IF Len(str) = 0
                  THEN [FsmStart("tel", "nil", str, ZeroTELURI) EXCEPT !.err = "empty URI"]
                  ELSE FsmStart("tel", "telStateScheme", str, ZeroTELURI))

\* address texts whose display name is quoted: escaped quotes, escaped
\* backslashes, escaped and plain line ends, names left unclosed
LoopQuotedTexts ==
    { <<"\"">> \o body \o rest :
        body \in { <<"B", "\\", "\"", "b">>, <<"B", "\\", "\\">>, <<"\\", "\\", "\\", "\"">>,
                   <<"B", "\\", "CR">>, <<"\\", "LF", "b">>, <<"\\", "\\", "LF">>,
                   <<"\\", "\\", "\\", "CR">>, <<"B", "CR", "b">>, <<"\\", "b">>,
                   <<"B", "\\">> },
        rest \in { <<"\"", "<", "s", "i", "p", ":", "h", ">">>, <<"\"">>, <<>>,
                   <<"\"", "\\", "LF", "<", "s", "i", "p", ":", "h", ">">> } }

parseNameAddressStart ==
    \E text \in {AddrText(in) : in \in LoopAddrInputs} \cup LoopQuotedTexts :
        StartLoop(FsmStart("addr", "addressStateDisplayName", text,
                           [DisplayName |-> <<>>, URI |-> NilURI, Params |-> NewParams]))

FsmRunning(kind) == fsm.kind = kind /\ fsm.state # "nil" /\ fsm.err = NoErr

\* state, str, err = state(uri, str) in ParseSIPURI
SipStep ==
    /\ FsmRunning("sip")
    /\ \E r \in {sipState(fsm.state, fsm.obj, fsm.s)} : fsm' = FsmNext(r, r.uri)
    /\ UNCHANGED <<hpVars, uriVars, addrVars, telVars, hdrVars, hsVars, objVars, byval>>

\* state, str, err = state(uri, str) in ParseTELURI
TelStep ==
    /\ FsmRunning("tel")
    /\ \E r \in {telState(fsm.state, fsm.obj, fsm.s)} : fsm' = FsmNext(r, r.uri)
    /\ UNCHANGED <<hpVars, uriVars, addrVars, telVars, hdrVars, hsVars, objVars, byval>>

\* state, str, err = state(a, str) in parseNameAddress
AddrStep ==
    /\ FsmRunning("addr")
    /\ \E r \in {addressState(fsm.state, fsm.obj, fsm.s)} : fsm' = FsmNext(r, r.a)
    /\ UNCHANGED <<hpVars, uriVars, addrVars, telVars, hdrVars, hsVars, objVars, byval>>

InitLoops ==
    InitHP /\ InitURIIdle /\ InitAddrIdle /\ InitTelIdle /\ InitHdrIdle /\ InitObjIdle
    /\ InitHsIdle /\ InitFsmIdle /\ InitByvalIdle

LoopPass == SipStep \/ TelStep \/ AddrStep

NextFsm ==
    \/ ParseSIPURIStart
    \/ ParseTELURIStart
    \/ parseNameAddressStart
    \/ SipStep
    \/ TelStep
    \/ AddrStep

\* one driving loop on one text; a loop that can make a pass makes it
SpecFsm == InitLoops /\ [][NextFsm]_vars /\ WF_vars(LoopPass)

(***************************************************************************)
(* A URI's HeaderParams and a copy of it taken by value.  GetParams        *)
(* returns *u.Params and SetParams stores &p of its by-value argument: the *)
(* struct is copied, so the two holders have the same keys map and each a  *)
(* slice header of its own (array, length) over backing arrays they may    *)
(* share.  byval.u is the header the URI holds, byval.p the caller's copy  *)
(* (array 0 while none was taken); a panic ends the program.               *)
(***************************************************************************)
MaxData == 2

ByvalKeys == {<<"a">>, <<"b">>}

ByvalVals == {<<"1">>}

ZeroPair == Pair(<<>>, <<>>)

OtherHolder(who) == IF who = "u" THEN "p" ELSE "u"

\* append(data, x) on the slice header hd: in place while the array has room,
\* else into a new array of twice the size (the old one stays with the other
\* holder when it points to it)
SliceAppend(arrs, hd, otherArr, x) ==
    IF hd.len < Len(arrs[hd.arr])
    THEN [arrs |-> [arrs EXCEPT ![hd.arr][hd.len + 1] = x],
          hd   |-> [hd EXCEPT !.len = hd.len + 1]]
    ELSE With(IF otherArr = hd.arr THEN 3 - hd.arr ELSE hd.arr, LAMBDA id :
           [arrs |-> [arrs EXCEPT ![id] =
                        [i \in 1..(IF hd.len = 0 THEN 1 ELSE 2 * hd.len) |->
                           IF i <= hd.len THEN arrs[hd.arr][i]
                           ELSE IF i = hd.len + 1 THEN x ELSE ZeroPair]],
            hd   |-> [arr |-> id, len |-> hd.len + 1]])

\* hp.Add(pr) through the holder who: hp.data[i] with i beyond len(hp.data) panics
ByvalAdd(b, who, pr) ==
    With(b[who], LAMBDA hd :
      IF pr.Key \in DOMAIN b.keys
      THEN IF b.keys[pr.Key] >= hd.len THEN [b EXCEPT !.fault = TRUE]
           ELSE [b EXCEPT !.arrs[hd.arr][b.keys[pr.Key] + 1].Val = pr.Val]
      ELSE With(SliceAppend(b.arrs, hd, b[OtherHolder(who)].arr, pr), LAMBDA r :
             [b EXCEPT !.keys = [k \in DOMAIN b.keys \cup {pr.Key} |->
                                   IF k = pr.Key THEN hd.len ELSE b.keys[k]],
                       !.arrs = r.arrs,
                       ![who] = r.hd]))

\* hp.Remove(key) through the holder who: hp.data[i+1:] with i+1 beyond
\* len(hp.data) panics; the shift is done in the backing array
ByvalRemove(b, who, key) ==
    With(b[who], LAMBDA hd :
      IF key \notin DOMAIN b.keys THEN b
      ELSE With(b.keys[key], LAMBDA i :
             IF i >= hd.len THEN [b EXCEPT !.fault = TRUE]
             ELSE [b EXCEPT !.keys = [k \in DOMAIN b.keys \ {key} |->
                                        IF b.keys[k] > i THEN b.keys[k] - 1 ELSE b.keys[k]],
                            !.arrs[hd.arr] =
                                [j \in 1..Len(b.arrs[hd.arr]) |->
                                   IF j > i /\ j < hd.len THEN b.arrs[hd.arr][j + 1]
                                   ELSE b.arrs[hd.arr][j]],
                            ![who] = [hd EXCEPT !.len = hd.len - 1]]))

\* hp.Get(key) through the holder who: hp.data[v] with v beyond len(hp.data) panics
ByvalGet(b, who, key) ==
    IF key \in DOMAIN b.keys /\ b.keys[key] >= b[who].len THEN [b EXCEPT !.fault = TRUE]
    ELSE b

ByvalStep(op, next) ==
    /\ byval.u.arr # 0
    /\ ~byval.fault
    /\ byval' = [next EXCEPT !.last = op]
    /\ UNCHANGED <<hpVars, uriVars, addrVars, telVars, hdrVars, hsVars, fsm, objVars>>

\* p := u.GetParams()
GetParamsCall == ByvalStep("GetParams", [byval EXCEPT !.p = byval.u])

\* u.SetParams(p)
SetParamsCall == byval.p.arr # 0 /\ ByvalStep("SetParams", [byval EXCEPT !.u = byval.p])

Holders == IF byval.p.arr = 0 THEN {"u"} ELSE {"u", "p"}

\* p.Add(pr) on the copy, u.Params.Add(pr) on the URI's map
ByvalAddCall ==
    \E who \in Holders, k \in ByvalKeys, v \in ByvalVals :
        /\ k \notin DOMAIN byval.keys => byval[who].len < MaxData
        /\ ByvalStep("Add", ByvalAdd(byval, who, Pair(k, v)))

ByvalRemoveCall ==
    \E who \in Holders, k \in ByvalKeys :
        ByvalStep("Remove", ByvalRemove(byval, who, k))

ByvalGetCall ==
    \E who \in Holders, k \in ByvalKeys :
        ByvalStep("Get", ByvalGet(byval, who, k))

\* a URI whose Params is NewParams()
InitByval ==
    byval = [NoByval EXCEPT !.u = [arr |-> 1, len |-> 0]]

InitCopies ==
    InitHP /\ InitURIIdle /\ InitAddrIdle /\ InitTelIdle /\ InitHdrIdle /\ InitObjIdle
    /\ InitHsIdle /\ InitFsmIdle /\ InitByval

NextCopy ==
    \/ GetParamsCall
    \/ SetParamsCall
    \/ ByvalAddCall
    \/ ByvalRemoveCall
    \/ ByvalGetCall

\* a URI's parameter map and one by-value copy of it under Add, Remove and Get
SpecCopy == InitCopies /\ [][NextCopy]_vars

(***************************************************************************)
(* C1. After any sequence of Add and Remove calls from NewParams() the map *)
(* agrees with the reference insertion-ordered map: Get(k) is (v, true)    *)
(* exactly when k is present, v being the value of the most recent Add,    *)
(* and ("", false) otherwise; Has(k) is that flag; Length() is the number  *)
(* of present keys; Keys() lists the present keys in the order of their    *)
(* first Add since their last Remove.                                      *)
(***************************************************************************)
C1_AgreesWithReference ==
    /\ \A k \in ParamKeys :
         /\ Get(hp, k) = IF RefHas(ref, k) THEN <<ref[RefPos(ref, k)].Val, TRUE>>
                         ELSE <<<<>>, FALSE>>
         /\ Has(hp, k) = RefHas(ref, k)
    /\ Length(hp) = Len(ref)
    /\ Keys(hp) = [i \in 1..Len(ref) |-> ref[i].Key]

\* an overwriting Add has just hit the first of three keys
C1_Witness ==
    /\ last.op = "Add" /\ last.pos = 0
    /\ Len(ref) = 3
    /\ Keys(hp) = <<<<"b">>, <<"c">>, <<"a">>>>
    /\ Get(hp, <<"b">>) = <<<<"1">>, TRUE>>

(***************************************************************************)
(* C2. Remove(k) on an absent key changes nothing; on a present key        *)
(* Length() decreases by exactly one, k is no longer found, and every      *)
(* remaining key keeps its value and its relative order: its position      *)
(* drops by one iff it was after k.                                        *)
(***************************************************************************)
RemovePost(h, h2, k) ==
    IF ~Has(h, k)
    THEN h2 = h
    ELSE /\ Length(h2) = Length(h) - 1
         /\ Get(h2, k) = <<<<>>, FALSE>>
         /\ ~Has(h2, k)
         /\ \A j \in ParamKeys \ {k} :
              /\ Has(h2, j) = Has(h, j)
              /\ Has(h, j) =>
                   /\ h2.keys[j] = IF h.keys[j] > h.keys[k] THEN h.keys[j] - 1
                                   ELSE h.keys[j]
                   /\ Keys(h2)[h2.keys[j] + 1] = j
                   /\ h2.data[h2.keys[j] + 1].Key = j
              /\ Get(h2, j) = Get(h, j)

C2_RemoveReindexes ==
    [][last'.op = "Remove" => RemovePost(hp, hp', last'.key)]_vars

\* the middle one of three keys has just been removed
C2_Witness ==
    /\ last.op = "Remove" /\ last.pos = 1
    /\ Keys(hp) = <<<<"a">>, <<"c">>>>

(***************************************************************************)
(* C3. a.Equals(b) is true iff b is non-nil, both have the same Length,    *)
(* and every key of a is present in b with the same value and the same     *)
(* position; so maps holding the same pairs in different orders are not    *)
(* Equals, and Equals(nil) is false.                                       *)
(***************************************************************************)
SameAt(a, b) ==
    /\ b # NilHP
    /\ Length(a) = Length(b)
    /\ \A k \in ParamKeys :
         Has(a, k) => /\ Has(b, k)
                      /\ Get(b, k) = Get(a, k)
                      /\ \E i \in 1..Length(a) : Keys(a)[i] = k /\ Keys(b)[i] = k

C3_EqualsOrderSensitive == Equals(hp, o) <=> SameAt(hp, o)

\* the same two pairs, inserted in opposite orders
C3_Witness ==
    /\ o # NilHP
    /\ hp.data = <<Pair(<<"a">>, <<"1">>), Pair(<<"b">>, <<"1">>)>>
    /\ o.data = <<Pair(<<"b">>, <<"1">>), Pair(<<"a">>, <<"1">>)>>
    /\ ~Equals(hp, o)

(***************************************************************************)
(* What the specification says of a text, read off the text itself.        *)
(***************************************************************************)
\* the scheme token before the first ':', lower-cased; <<"?">> when the text
\* holds no ':'
SchemeToken(s) ==
    LET i == IndexAny(s, {":"})
    IN IF i < 0 THEN <<"?">> ELSE ToLower(Slice(s, 0, i))

SipToken  == <<"s", "i", "p">>
SipsToken == <<"s", "i", "p", "s">>
TelToken  == <<"t", "e", "l">>

\* the text after the scheme's ':'
AfterScheme(s) == SliceFrom(s, IndexAny(s, {":"}) + 1)

\* sip:[userinfo@]host[:port]... with a host that is not an IPv6 literal
PlainSipForm(s) ==
    /\ SchemeToken(s) = SipToken
    /\ IndexAny(AfterScheme(s), {"["}) < 0
    /\ CutSlashes(AfterScheme(s))[2] = FALSE

\* userinfo: the text before the first '@', [has, text]
UserInfoOf(s) ==
    LET rest == AfterScheme(s)
        at   == IndexAny(rest, {"@"})
    IN IF at < 0 THEN [has |-> FALSE, text |-> <<>>]
       ELSE [has |-> TRUE, text |-> Slice(rest, 0, at)]

\* the text after the userinfo's '@'
HostPortOf(s) ==
    LET rest == AfterScheme(s)
        at   == IndexAny(rest, {"@"})
    IN IF at < 0 THEN rest ELSE SliceFrom(rest, at + 1)

HostOf(s) ==
    LET hpt == HostPortOf(s)
        i  == IndexAny(hpt, {":", ";", "?"})
    IN IF i < 0 THEN hpt ELSE Slice(hpt, 0, i)

\* the port text: between the ':' after the host and the next ';', '?' or end
PortTextOf(s) ==
    LET hpt == HostPortOf(s)
        i  == IndexAny(hpt, {":", ";", "?"})
    IN IF i < 0 \/ hpt[i + 1] # ":" THEN [has |-> FALSE, text |-> <<>>]
       ELSE LET r == SliceFrom(hpt, i + 1)
                j == IndexAny(r, {";", "?"})
            IN [has |-> TRUE, text |-> IF j < 0 THEN r ELSE Slice(r, 0, j)]

AllDigits(t) == Len(t) > 0 /\ \A i \in 1..Len(t) : IsDigit(t[i])

DecimalOf(t) ==
    LET Val[n \in 0..Len(t)] == IF n = 0 THEN 0 ELSE Val[n - 1] * 10 + DigitVal(t[n])
    IN Val[Len(t)]

\* empty, non-numeric or signed-negative port text
BadPortText(t) ==
    \/ t = <<>>
    \/ t[1] = "-"
    \/ ~IsDigit(t[1]) /\ t[1] # "+"
    \/ \E i \in 2..Len(t) : ~IsDigit(t[i])
    \/ Len(t) = 1 /\ ~IsDigit(t[1])

\* the pairs of a parameter map, none for a nil map
ParamData(h) == IF h = NilHP THEN <<>> ELSE h.data

\* two URIs equal field by field
SameURI(a, b) ==
    /\ a.type = b.type
    /\ a.Scheme = b.Scheme
    /\ a.HierarhicalSlashes = b.HierarhicalSlashes
    /\ ParamData(a.Params) = ParamData(b.Params)
    /\ ParamData(a.Headers) = ParamData(b.Headers)
    /\ IF a.type = "SIPURI"
       THEN /\ a.User = b.User /\ a.Password = b.Password
            /\ a.Host = b.Host /\ a.Port = b.Port /\ a.Wildcard = b.Wildcard
       ELSE a.Number = b.Number

(***************************************************************************)
(* C4. ParseURI classifies the scheme token before the first ':' without   *)
(* regard to letter case: a sip or sips token sends the text to the SIP    *)
(* parser and a tel token to the TEL parser, the outcome being that        *)
(* parser's, and a URI returned carries the token's scheme; every other    *)
(* token fails with the unsupported-scheme error and a nil URI.            *)
(***************************************************************************)
C4_SchemeDispatch ==
    (pc = "ParseURI" /\ IndexAny(uriStr, {":"}) >= 0) =>
        LET tok == SchemeToken(uriStr)
        IN CASE tok \in {SipToken, SipsToken} ->
                  LET scheme == IF tok = SipToken THEN URISchemeSIP ELSE URISchemeSIPS
                  IN /\ uri.err = ParseSIPURI(uriStr, [ZeroSIPURI EXCEPT !.Scheme = scheme]).err
                     /\ uri.err = NoErr =>
                          uri.uri.type = "SIPURI" /\ uri.uri.Scheme = scheme
             [] tok = TelToken ->
                  /\ uri.err = ParseTELURI(uriStr, [ZeroTELURI EXCEPT !.Scheme = URISchemeTEL]).err
                  /\ uri.err = NoErr => uri.uri.type = "TELURI"
             [] OTHER ->
                  /\ uri.uri = NilURI
                  /\ uri.err \in {"unsupported uri scheme", "not valid uri scheme"}

(***************************************************************************)
(* C5. ParseSIPURI accepts the sip and the sips scheme in any letter case: *)
(* the scheme is never the reason for an error, and a parsed URI reports   *)
(* IsEncrypted() exactly when the scheme is sips.                          *)
(***************************************************************************)
C5_AcceptsSipAndSips ==
    (pc = "ParseSIPURI" /\ SchemeToken(uriStr) \in {SipToken, SipsToken}) =>
        /\ outErr \notin {"Invalid scheme", "not valid sip uri", "missing protocol scheme"}
        /\ outErr = NoErr => (IsEncrypted(out) <=> SchemeToken(uriStr) = SipsToken)

(***************************************************************************)
(* C6. For sip:[userinfo@]host[:port]... ParseSIPURI sets User to the      *)
(* userinfo text before its first ':' and Password to the text between     *)
(* that ':' and the '@'; Host to the text up to the next ':', ';', '?' or  *)
(* end; Port to the decimal value after the ':' (0 when absent).  With no  *)
(* '@' the User stays empty and the text belongs to the host.              *)
(***************************************************************************)
C6_UserPasswordHostPort ==
    (pc = "ParseSIPURI" /\ outErr = NoErr /\ PlainSipForm(uriStr)) =>
        LET ui    == UserInfoOf(uriStr)
            colon == IndexAny(ui.text, {":"})
            port  == PortTextOf(uriStr)
        IN /\ out.User = IF colon < 0 THEN ui.text ELSE Slice(ui.text, 0, colon)
           /\ out.Password = IF colon < 0 THEN <<>> ELSE SliceFrom(ui.text, colon + 1)
           /\ out.Host = HostOf(uriStr)
           /\ ~port.has => out.Port = 0
           /\ (port.has /\ AllDigits(port.text)) => out.Port = DecimalOf(port.text)

(***************************************************************************)
(* C7. Round trip: for every text ParseURI accepts, ParseURI of the        *)
(* String() of the result succeeds too and yields a URI equal to it field  *)
(* by field, hence with the same String().                                 *)
(***************************************************************************)
C7_RoundTrip ==
    pc = "Reparsed" =>
        /\ uri2.err = NoErr
        /\ SameURI(uri2.uri, uri.uri)
        /\ URIString(uri2.uri) = URIString(uri.uri)

(***************************************************************************)
(* C8. ParseAddressValue keeps header parameters and URI parameters apart: *)
(* with angle brackets the parameters inside them are the URI's params and *)
(* the parameters after '>' are NameAddress.Params; without angle brackets *)
(* every ';'-parameter after the URI is in NameAddress.Params and the      *)
(* URI's params are empty.                                                 *)
(***************************************************************************)
C8_ParamsKeptApart ==
    (apc = "done" /\ addr.err = NoErr) =>
        /\ ParamData(addr.address.URI.Params) = addrIn.inside
        /\ ParamData(addr.address.Params) = addrIn.after

(***************************************************************************)
(* C9. A parser that returns an error leaves no partial result: ParseURI   *)
(* and ParseAddressValue return nil, and the *SIPURI or *TELURI handed to  *)
(* ParseSIPURI or ParseTELURI has the field values it had before the call. *)
(***************************************************************************)
C9_NoPartialResult ==
    /\ (pc \in {"ParseURI", "Reparsed"} /\ uri.err # NoErr) => uri.uri = NilURI
    /\ (pc = "Reparsed" /\ uri2.err # NoErr) => uri2.uri = NilURI
    /\ (apc = "done" /\ addr.err # NoErr) => addr.address = NilAddress
    /\ (pc = "ParseSIPURI" /\ outErr # NoErr) => out = ZeroSIPURI
    /\ (pc = "ParseTELURI" /\ outErr # NoErr) => out = ZeroTELURI

(***************************************************************************)
(* C10. The port text of a SIP URI must be a non-negative base-10 integer: *)
(* after every successful parse Port >= 0 and the port text, when there is *)
(* one, is such a number; empty, non-numeric or signed-negative port text  *)
(* makes the parse fail with the invalid-port error.                       *)
(***************************************************************************)
C10_PortNonNegative ==
    (pc = "ParseSIPURI" /\ PlainSipForm(uriStr)) =>
        LET port == PortTextOf(uriStr)
        IN /\ outErr = NoErr => out.Port >= 0
           /\ (outErr = NoErr /\ port.has) => ~BadPortText(port.text)
           /\ (port.has /\ BadPortText(port.text)) =>
                outErr = "strconv.Atoi: invalid syntax"

(***************************************************************************)
(* C11. A SIP URI whose host is followed by two ':port' segments fails to  *)
(* parse, through ParseSIPURI and inside '<...>' in ParseAddressValue.     *)
(***************************************************************************)
\* a ':' inside the port text: a second ':port' segment
DoublePort(s) ==
    /\ PlainSipForm(s)
    /\ PortTextOf(s).has
    /\ IndexAny(PortTextOf(s).text, {":"}) >= 0

C11_DoublePortFails ==
    /\ (pc = "ParseSIPURI" /\ DoublePort(uriStr)) => outErr # NoErr
    /\ (apc = "done" /\ addrIn.bracket /\ addrIn.closed /\ DoublePort(addrIn.core)) =>
           addr.err # NoErr /\ addr.address = NilAddress

\* sip:h:5:6;k=v has been handed to ParseSIPURI
C11_Witness ==
    /\ pc = "ParseSIPURI"
    /\ uriStr = <<"s", "i", "p", ":", "h", ":", "5", ":", "6", ";", "k", "=", "v">>
    /\ outErr = "strconv.Atoi: invalid syntax"

(***************************************************************************)
(* C12. IPv6 bounds: parsing fails for every bracketed host whose content  *)
(* between '[' and ']' is longer than 39 characters, and succeeds for      *)
(* [::1] and for a full 8-hextet literal (39 characters), storing the host *)
(* verbatim with both brackets.                                            *)
(***************************************************************************)
\* sip:[userinfo@][content]...: the host opens with '[' and has a ']'
BracketForm(s) ==
    /\ SchemeToken(s) = SipToken
    /\ Len(HostPortOf(s)) > 0
    /\ HostPortOf(s)[1] = "["
    /\ IndexAny(HostPortOf(s), {"]"}) > 0

\* the text between '[' and the first ']'
BracketContent(s) == Slice(HostPortOf(s), 1, IndexAny(HostPortOf(s), {"]"}))

\* the host with both brackets
BracketHost(s) == Slice(HostPortOf(s), 0, IndexAny(HostPortOf(s), {"]"}) + 1)

C12_IPv6Bounds ==
    (pc = "ParseSIPURI" /\ BracketForm(uriStr)) =>
        /\ Len(BracketContent(uriStr)) > IPv6MaxContent => outErr # NoErr
        /\ (/\ BracketContent(uriStr) \in {<<":", ":", "1">>, Hextets(8)}
            /\ BracketHost(uriStr) = HostPortOf(uriStr)) =>
               outErr = NoErr /\ out.Host = BracketHost(uriStr)

(***************************************************************************)
(* C13. ParseURI returns an error and a nil URI for a malformed bracketed  *)
(* host: '[' with no closing ']', ']' with no opening '[', and empty       *)
(* brackets.                                                               *)
(***************************************************************************)
MalformedBrackets(s) ==
    LET h == HostPortOf(s)
    IN /\ SchemeToken(s) = SipToken
       /\ \/ Len(h) > 0 /\ h[1] = "[" /\ IndexAny(h, {"]"}) < 0
          \/ IndexAny(h, {"]"}) >= 0 /\ IndexAny(h, {"["}) < 0
          \/ Len(h) > 1 /\ h[1] = "[" /\ h[2] = "]"

C13_MalformedBracketsFail ==
    (pc = "ParseURI" /\ MalformedBrackets(uriStr)) =>
        uri.err # NoErr /\ uri.uri = NilURI

(***************************************************************************)
(* C14. ParseURI accepts the bare text "*" (no scheme colon) and returns   *)
(* the SIP wildcard URI: a SIPURI with Host "*" and Wildcard = true.       *)
(***************************************************************************)
C14_BareStarIsWildcard ==
    (pc = "ParseURI" /\ uriStr = <<"*">>) =>
        /\ uri.err = NoErr
        /\ uri.uri.type = "SIPURI"
        /\ uri.uri.Host = <<"*">>
        /\ uri.uri.Wildcard = TRUE

(***************************************************************************)
(* C15. ParseTELURI accepts a number that contains the visual separators   *)
(* '-', '(' and ')', stores the number verbatim in Number, and parses the  *)
(* ';'-separated parameters that follow into Params.                       *)
(***************************************************************************)
C15_TelVisualSeparators ==
    pc = "ParseTELURI" =>
        \A num \in TelNumbers, ps \in TelParamSeqs :
            uriStr = <<"t", "e", "l", ":">> \o num \o ParamsText(ps) =>
                /\ outErr = NoErr
                /\ out.Number = num
                /\ ParamData(out.Params) = ps

\* the digits of a number, after its leading '+' if it has one
DigitsOnly(number) ==
    (IF Len(number) > 0 /\ number[1] = "+" THEN <<"+">> ELSE <<>>)
    \o SelectSeq(number, IsDigit)

\* the value of phone-context in a TEL URI, <<>> when it has none
PhoneContextOf(u) ==
    IF u.Params = NilHP THEN <<>>
    ELSE LET hit == {i \in 1..Len(u.Params.data) : u.Params.data[i].Key = PhoneContext}
         IN IF hit = {} THEN <<>> ELSE u.Params.data[CHOOSE i \in hit : TRUE].Val

(***************************************************************************)
(* C16. For a TEL URI with a non-empty phone-context parameter, TELtoSIP   *)
(* gives a SIP URI whose User is the number reduced to its digits and one  *)
(* leading '+', whose Host is the phone-context value, and whose Params    *)
(* are the other TEL parameters in their order followed by                 *)
(* user-context=phone as the last one.                                     *)
(***************************************************************************)
C16_TelToSipFields ==
    (tpc = "TELtoSIP" /\ PhoneContextOf(telBefore) # <<>>) =>
        /\ telErr = NoErr
        /\ sip.User = DigitsOnly(telBefore.Number)
        /\ sip.Host = PhoneContextOf(telBefore)
        /\ ParamData(sip.Params) =
               SelectSeq(ParamData(telBefore.Params), LAMBDA q : q.Key # PhoneContext)
               \o <<Pair(UserContext, Phone)>>

(***************************************************************************)
(* C17. For a TEL URI without a phone-context parameter, or with an empty  *)
(* one, TELtoSIP returns an error and leaves the TEL URI and the output    *)
(* SIP URI as they were before the call.                                   *)
(***************************************************************************)
C17_MissingPhoneContext ==
    (tpc = "TELtoSIP" /\ PhoneContextOf(telBefore) = <<>>) =>
        /\ telErr = ErrPhoneContext
        /\ tel = telBefore
        /\ sip = sipBefore

RouteKinds == {"Route", "Record-Route", "Refer-To"}

\* the URI a header holds after its parser ran, NilURI when it holds none
HeldURI(h) ==
    IF h.kind \in RouteKinds THEN h.address
    ELSE IF h.address = NilAddress THEN NilURI
    ELSE h.address.URI

(***************************************************************************)
(* C18. ParseAddressValue("*") succeeds with an empty display name and a   *)
(* SIP URI with Host "*" and Wildcard = true (seen through the Contact     *)
(* header, which stores that result); a header parser that is left with a  *)
(* wildcard URI returns an error unless it is the Contact parser.          *)
(***************************************************************************)
C18_WildcardOnlyInContact ==
    hpc = "done" =>
        /\ (hdr.kind = "Contact" /\ hdrText = <<"*">>) =>
               /\ hdr.err = NoErr
               /\ hdr.address # NilAddress
               /\ hdr.address.DisplayName = <<>>
               /\ hdr.address.URI = WildcardURI
        /\ (hdr.kind # "Contact" /\ HeldURI(hdr) # NilURI /\ IsWildCard(HeldURI(hdr))) =>
               hdr.err # NoErr

\* the indices of the commas of s that stand outside '<...>' and outside a
\* quoted string (in which a backslash escapes the next character)
RECURSIVE TopCommas(_, _, _, _, _)
TopCommas(s, i, inB, inQ, esc) ==
    IF i >= Len(s) THEN {}
    ELSE LET c == s[i + 1]
         IN IF inQ
            THEN IF esc THEN TopCommas(s, i + 1, inB, TRUE, FALSE)
                 ELSE IF c = "\\" THEN TopCommas(s, i + 1, inB, TRUE, TRUE)
                 ELSE TopCommas(s, i + 1, inB, c # "\"", FALSE)
            ELSE IF c = "\"" THEN TopCommas(s, i + 1, inB, TRUE, FALSE)
            ELSE IF c = "<" THEN TopCommas(s, i + 1, TRUE, FALSE, FALSE)
            ELSE IF c = ">" THEN TopCommas(s, i + 1, FALSE, FALSE, FALSE)
            ELSE (IF c = "," /\ ~inB THEN {i} ELSE {})
                 \cup TopCommas(s, i + 1, inB, FALSE, FALSE)

\* the first of them, -1 when there is none
FirstTopComma(s) ==
    LET cs == TopCommas(s, 0, FALSE, FALSE, FALSE)
    IN IF cs = {} THEN -1 ELSE CHOOSE i \in cs : \A j \in cs : i <= j

\* the text of the first name-address of a header line
FirstAddress(s) == IF FirstTopComma(s) < 0 THEN s ELSE Slice(s, 0, FirstTopComma(s))

(***************************************************************************)
(* C19. parseRouteAddress splits only at a ',' outside '<...>' and outside *)
(* quotes: with the first such comma at index i it parses headerText[:i]   *)
(* into the address and returns the comma-detected error for i; without    *)
(* one it parses the whole text and returns nil.                           *)
(***************************************************************************)
C19_RouteSplitsAtTopComma ==
    (hpc = "done" /\ hdr.kind \in RouteKinds) =>
        LET i    == FirstTopComma(hdrText)
            want == ParseAddressValue(FirstAddress(hdrText))
        IN IF want.err # NoErr THEN hdr.err = want.err
           ELSE IF want.address.URI = NilURI \/ want.address.URI.type # "SIPURI"
           THEN hdr.err # NoErr /\ hdr.coma = NoComa
           ELSE /\ hdr.address = want.address.URI
                /\ IF i >= 0 THEN hdr.err = ErrComa /\ hdr.coma = i
                   ELSE hdr.err = NoErr

(***************************************************************************)
(* C20. parseContactHeader delimits the first name-address: with a ','     *)
(* outside '<...>' and outside quotes at index i, the NameAddress stored   *)
(* in the header is the parse of the text before that comma only, and the  *)
(* comma-detected error for i is returned.                                 *)
(***************************************************************************)
C20_ContactStopsAtComma ==
    (hpc = "done" /\ hdr.kind = "Contact" /\ FirstTopComma(hdrText) >= 0) =>
        LET want == ParseAddressValue(FirstAddress(hdrText))
        IN IF want.err # NoErr THEN hdr.err = want.err
           ELSE /\ hdr.address = want.address
                /\ hdr.err = ErrComa
                /\ hdr.coma = FirstTopComma(hdrText)

\* the texts between the quotes of a quoted display name
QuotedBodies ==
    { <<"B", "o", "b">>, <<"B">>, <<"B", "\\", "\"", "b">>, <<"B", "\\", "\\">> }

\* body with its quoted pairs read: \" as a quote, \\ as one backslash
Unescaped(body) ==
    LET RECURSIVE go(_)
        go(i) == IF i > Len(body) THEN <<>>
                 ELSE IF body[i] = "\\" /\ i < Len(body) THEN <<body[i + 1]>> \o go(i + 2)
                 ELSE <<body[i]>> \o go(i + 1)
    IN go(1)

\* ParseAddressValue has accepted the quoted name `body` before '<'
ParsedQuoted(body) ==
    /\ apc = "done"
    /\ addrIn.bracket
    /\ \E sp \in {<<>>, <<" ">>} : addrIn.disp = <<"\"">> \o body \o <<"\"">> \o sp
    /\ addr.err = NoErr

(***************************************************************************)
(* C21, as the code has it.  The DisplayName stored for a quoted display   *)
(* name is the text between the quotes as written, its backslashes kept.   *)
(***************************************************************************)
C21_QuotedNameVerbatim ==
    \A body \in QuotedBodies : ParsedQuoted(body) => addr.address.DisplayName = body

C21_Witness ==
    /\ ParsedQuoted(<<"B", "\\", "\"", "b">>)
    /\ addr.address.DisplayName = <<"B", "\\", "\"", "b">>

(***************************************************************************)
(* C21, as stated.  The DisplayName stored for a quoted display name has   *)
(* its escaping resolved: an escaped quote is stored as a quote, an        *)
(* escaped backslash as one backslash.                                     *)
(***************************************************************************)
C21_QuotedNameResolved ==
    \A body \in QuotedBodies :
        ParsedQuoted(body) => addr.address.DisplayName = Unescaped(body)

\* a quoted display name closed and followed by ';', no '<' after it
LegacyDisp == <<"\"", "B", "o", "b", "\"", ";">>

(***************************************************************************)
(* C22. After the closing quote of a quoted display name, a ';' that comes *)
(* before any '<' leads straight to the header parameters: the text after  *)
(* that ';' is parsed as header parameters and no URI is expected.         *)
(***************************************************************************)
C22_LegacyFormToParams ==
    (apc = "done" /\ ~addrIn.bracket /\ addrIn.disp = LegacyDisp
        /\ addrIn.core \in {<<>>, <<"t", "=", "1">>}) =>
        /\ addr.err = NoErr
        /\ addr.address.DisplayName = <<"B", "o", "b">>
        /\ ParamData(addr.address.Params) =
               (IF addrIn.core = <<>> THEN <<>> ELSE <<Pair(<<"t">>, <<"1">>)>>)
               \o addrIn.after

\* the pairs a reference map holds after Add(pairs...) on an empty one
AddedTo(ps) == RefAdd(<<>>, ps)

(***************************************************************************)
(* C23. Add on a nil *HeaderParams, or on a HeaderParams{} whose keys and  *)
(* data are nil, does not fault and gives a non-nil map whose Get, Has,    *)
(* Keys and Length are those of NewParams().Add(the same pairs).           *)
(***************************************************************************)
C23_AddOnUninitialized ==
    (olast.op = "Add" /\ olast.tgt = "recv" /\ olast.on \in {"nil", "zero"}) =>
        /\ recv # NilPtr
        /\ heap[recv] # NilHP
        /\ heap[recv] # Unalloc
        /\ LET want == AddedTo(olast.pairs)
           IN /\ Length(heap[recv]) = Len(want)
              /\ Keys(heap[recv]) = [i \in 1..Len(want) |-> want[i].Key]
              /\ \A k \in ObjKeys :
                   /\ Has(heap[recv], k) = RefHas(want, k)
                   /\ Get(heap[recv], k) =
                          IF RefHas(want, k) THEN <<want[RefPos(want, k)].Val, TRUE>>
                          ELSE <<<<>>, FALSE>>
              /\ Keys(heap[recv]) = Keys(Add(NewParams, olast.pairs))

\* Add of two pairs on a nil pointer
C23_Witness ==
    /\ olast.op = "Add" /\ olast.on = "nil"
    /\ olast.pairs = <<Pair(<<"b">>, <<"1">>), Pair(<<"a">>, <<>>)>>
    /\ recv = "x"
    /\ Keys(heap[recv]) = <<<<"b">>, <<"a">>>>

\* what Get, Keys and Length show of a map
Observed(h) == <<Keys(h), Length(h), [k \in ObjKeys |-> Get(h, k)]>>

(***************************************************************************)
(* C24. Clone returns a map that Equals the original, with the same keys,  *)
(* values and order, and shares no state with it: a later Add or Remove on *)
(* the clone leaves Get, Keys and Length of the original as they were, and *)
(* one on the original leaves those of the clone.                          *)
(***************************************************************************)
C24_CloneIsIndependent ==
    [][ /\ olast'.op = "Clone" =>
              /\ dup' # NilPtr
              /\ Equals(heap'[recv'], heap'[dup'])
              /\ heap'[dup'].data = heap[recv].data
              /\ Observed(heap'[dup']) = Observed(heap[recv])
              /\ Observed(heap'[recv']) = Observed(heap[recv])
        /\ (olast'.op \in {"Add", "Remove"} /\ recv # NilPtr /\ dup # NilPtr) =>
              IF olast'.tgt = "dup"
              THEN Observed(heap'[recv']) = Observed(heap[recv])
              ELSE Observed(heap'[dup']) = Observed(heap[dup])
      ]_vars

\* after Clone the clone got a key the original does not hold
C24_Witness ==
    /\ olast.op = "Add" /\ olast.tgt = "dup"
    /\ recv # NilPtr /\ dup # NilPtr
    /\ Keys(heap[recv]) = <<<<"a">>>>
    /\ Keys(heap[dup]) = <<<<"a">>, <<"b">>>>

\* index and sequence of one map agree
InSync(h) ==
    /\ Cardinality(DOMAIN h.keys) = Len(h.data)
    /\ \A i, j \in 1..Len(h.data) : h.data[i].Key = h.data[j].Key => i = j
    /\ \A k \in DOMAIN h.keys :
         /\ 0 <= h.keys[k]
         /\ h.keys[k] < Len(h.data)
         /\ h.data[h.keys[k] + 1].Key = k

(***************************************************************************)
(* C30. In every state reachable by Add, Remove and Clone from             *)
(* NewParams(), a nil pointer or HeaderParams{}, index and sequence are in *)
(* sync: len(keys) = len(data), no key occurs twice in data, and for every *)
(* key k, 0 <= keys[k] < len(data) and data[keys[k]].Key = k.              *)
(***************************************************************************)
C30_IndexInSync ==
    \A ptr \in {recv, dup} : ptr # NilPtr => InSync(heap[ptr])

\* a map that went through Add and Remove, and its clone that went on alone
C30_Witness ==
    /\ recv # NilPtr /\ dup # NilPtr
    /\ olast.op = "Remove"
    /\ heap[recv].data = <<Pair(<<"b">>, <<"1">>)>>
    /\ heap[recv].keys[<<"b">>] = 0
    /\ Len(heap[dup].data) = 2

\* the pairs of a map joined by sep: key, or key=value when the value is not
\* empty
RECURSIVE Joined(_, _)
Joined(ps, sep) ==
    IF ps = <<>> THEN <<>>
    ELSE LET one == ps[1].Key \o (IF ps[1].Val = <<>> THEN <<>> ELSE <<"=">> \o ps[1].Val)
         IN IF Len(ps) = 1 THEN one ELSE one \o <<sep>> \o Joined(Tail(ps), sep)

(***************************************************************************)
(* C25. ToString(sep) renders the pairs in map order, each as key when its *)
(* value is empty and as key=value otherwise, joined by sep with no        *)
(* leading and no trailing separator; the empty map renders as "".         *)
(***************************************************************************)
C25_ToStringJoins ==
    \A t \in Tasks :
        res[t].op = "ToString" => res[t].val = Joined(heap[recv].data, res[t].arg)

\* a pair with a value and one without, joined by ';'
C25_Witness ==
    /\ res["t1"].op = "ToString" /\ res["t1"].arg = ";"
    /\ heap[recv].data = <<Pair(<<"a">>, <<"1">>), Pair(<<"b">>, <<>>)>>
    /\ res["t1"].val = <<"a", "=", "1", ";", "b">>

\* what a call gives when it runs alone on map h, the clone being map d
Alone(c, h, d) ==
    CASE c.op = "Get"      -> Get(h, c.arg)
      [] c.op = "Has"      -> Has(h, c.arg)
      [] c.op = "Keys"     -> Keys(h)
      [] c.op = "Length"   -> Length(h)
      [] c.op = "ToString" -> ParamsToString(h, c.arg)
      [] c.op = "String"   -> ParamsToString(h, "&")
      [] c.op = "ToStringWrite" -> ToStringWrite(h, c.arg, <<>>)
      [] c.op = "Equals"   -> IF c.arg = NilPtr THEN FALSE
                              ELSE IF c.arg = "x" THEN TRUE ELSE Observed(d) = Observed(h)
      [] c.op = "Clone"    -> "y"

LetterCases ==
    { <<"A", "a">>, <<"C", "c">>, <<"E", "e">>, <<"F", "f">>, <<"I", "i">>, <<"M", "m">>,
      <<"N", "n">>, <<"O", "o">>, <<"R", "r">>, <<"T", "t">>, <<"U", "u">>, <<"V", "v">>,
      <<"X", "x">> }

\* two header names that differ at most in the case of their letters
SameName(a, b) ==
    /\ Len(a) = Len(b)
    /\ \A i \in 1..Len(a) :
         a[i] = b[i] \/ <<a[i], b[i]>> \in LetterCases \/ <<b[i], a[i]>> \in LetterCases

\* the places of the headers called name, and the first of them
Matches(order, name) == {i \in 1..Len(order) : SameName(order[i].name, name)}

FirstMatch(order, name) ==
    IF Matches(order, name) = {} THEN <<>>
    ELSE <<order[CHOOSE i \in Matches(order, name) : \A j \in Matches(order, name) : i <= j]>>

\* the headers called name, in the order of their places
AllMatches(order, name) ==
    [k \in 1..Cardinality(Matches(order, name)) |->
        order[CHOOSE i \in Matches(order, name) :
                 Cardinality({j \in Matches(order, name) : j < i}) = k - 1]]

(***************************************************************************)
(* C26. AppendHeader puts its header after the headers already there and   *)
(* PrependHeader before them, no other call changes the order; GetHeader   *)
(* returns the first header of the order whose name matches without regard *)
(* to case, nil if there is none, and GetHeaders all of them in order.     *)
(***************************************************************************)
C26_OrderAndLookup ==
    /\ [](\A n \in LookupNames :
             /\ GetHeader(headerOrder, n) = FirstMatch(headerOrder, n)
             /\ GetHeaders(headerOrder, n) = AllMatches(headerOrder, n))
    /\ [][ /\ hsLast' = "AppendHeader" =>
                /\ Len(headerOrder') = Len(headerOrder) + 1
                /\ \A i \in 1..Len(headerOrder) : headerOrder'[i] = headerOrder[i]
           /\ hsLast' = "PrependHeader" =>
                /\ Len(headerOrder') = Len(headerOrder) + 1
                /\ \A i \in 1..Len(headerOrder) : headerOrder'[i + 1] = headerOrder[i]
           /\ hsLast' \notin {"AppendHeader", "PrependHeader"} => headerOrder' = headerOrder
         ]_vars

\* Via, From and To appended, then X prepended: GetHeader("via") is the Via
C26_Witness ==
    /\ hsLast = "PrependHeader"
    /\ headerOrder = << NewHeader(<<"X">>, <<"3">>), NewHeader(ViaName, <<"1">>),
                        NewHeader(<<"F", "r", "o", "m">>, <<"a", ":", "b">>),
                        NewHeader(<<"T", "o">>, <<>>) >>
    /\ GetHeader(headerOrder, <<"v", "i", "a">>) = <<NewHeader(ViaName, <<"1">>)>>

(***************************************************************************)
(* C27. In every state reached by AppendHeader, PrependHeader, the typed   *)
(* accessors and the clearing of a cache field, a cached reference that is *)
(* set is the first header of its type in the order and an accessor        *)
(* returns what a scan of the order returns; PrependHeader of a header of  *)
(* a cached type makes it the cached one and AppendHeader leaves a cached  *)
(* reference as it is.                                                     *)
(***************************************************************************)
C27_CacheCoherent ==
    /\ [](/\ via # <<>> => via = FirstMatch(headerOrder, ViaName)
          /\ contact # <<>> => contact = FirstMatch(headerOrder, ContactName)
          /\ hsLast = "Via" => hsRes = FirstMatch(headerOrder, ViaName)
          /\ hsLast = "Contact" => hsRes = FirstMatch(headerOrder, ContactName))
    /\ [][ /\ (hsLast' = "PrependHeader" /\ via # <<>>
                 /\ SameName(headerOrder'[1].name, ViaName)) => via' = <<headerOrder'[1]>>
           /\ (hsLast' = "PrependHeader" /\ contact # <<>>
                 /\ SameName(headerOrder'[1].name, ContactName)) => contact' = <<headerOrder'[1]>>
           /\ (hsLast' = "AppendHeader" /\ via # <<>>) => via' = via
           /\ (hsLast' = "AppendHeader" /\ contact # <<>>) => contact' = contact
         ]_vars

\* a Via was cached and another Via has just been prepended
C27_Witness ==
    /\ hsLast = "PrependHeader"
    /\ Len(headerOrder) >= 2
    /\ SameName(headerOrder[2].name, ViaName)
    /\ headerOrder[1] # headerOrder[2]
    /\ via = <<headerOrder[1]>>

\* the header lines, each closed by its line end
RECURSIVE Lines(_)
Lines(order) ==
    IF order = <<>> THEN <<>>
    ELSE order[1].name \o <<":", " ">> \o order[1].value \o CRLF \o Lines(Tail(order))

(***************************************************************************)
(* C28, as the code has it. String() renders every header in order as      *)
(* 'Name: value\r\n' and nothing after the last line; the empty container  *)
(* alone renders as one '\r\n'.                                            *)
(***************************************************************************)
C28_StringLines ==
    HeadersString(headerOrder) = IF headerOrder = <<>> THEN CRLF ELSE Lines(headerOrder)

\* three headers, one of them with an empty value, have been rendered
C28_Witness ==
    /\ hsLast = "AppendHeader"
    /\ Len(headerOrder) = 3
    /\ headerOrder[1].value = <<>>
    /\ HeadersString(headerOrder) = Lines(headerOrder)

(***************************************************************************)
(* C28. Headers.String() renders every header in container order as        *)
(* 'Name: value\r\n' and then appends one final '\r\n', for the empty      *)
(* container as well as for a container with one or more headers.          *)
(***************************************************************************)
C28_StringEndsWithBlankLine ==
    HeadersString(headerOrder) = Lines(headerOrder) \o CRLF

(***************************************************************************)
(* C31. ToStringWrite(sep, buffer) writes to the buffer exactly the string *)
(* that ToString(sep) returns, for every map and every separator byte.     *)
(***************************************************************************)
C31_WriteEqualsToString ==
    \A t \in Tasks :
        res[t].op = "ToStringWrite" =>
            res[t].val = ParamsToString(heap[recv], res[t].arg)

\* the order of the states of the three machines, "nil" being the terminal marker
SipOrder ==
    << "uriStateScheme", "uriStateSlashes", "uriStateUser", "uriStateHost",
       "uriStateHostIPV6", "uriStatePort", "uriStateUriParams", "uriStateHeaders", "nil" >>

TelOrder == << "telStateScheme", "telStateSlashes", "telStateNumber", "telStateParams", "nil" >>

AddrOrder ==
    << "addressStateDisplayName", "addressStateDisplayNameQuoted", "addressStateUriBracket",
       "addressStateUri", "addressStateHeaderParams", "nil" >>

OrderOf(kind) ==
    CASE kind = "sip" -> SipOrder [] kind = "tel" -> TelOrder [] kind = "addr" -> AddrOrder

Place(order, state) == CHOOSE i \in 1..Len(order) : order[i] = state

(***************************************************************************)
(* C32. Every run of the three driving loops ends with the terminal marker *)
(* or an error; a step of the SIP and of the TEL machine goes to a later   *)
(* state of its order, a step of the address machine too, except that the  *)
(* header-params state may follow itself with a strictly shorter text.     *)
(***************************************************************************)
C32_LoopsTerminate ==
    /\ [][ IF fsm.kind = "none" \/ fsm'.err # NoErr THEN TRUE
           ELSE IF fsm'.state = fsm.state
           THEN /\ fsm.kind = "addr"
                /\ fsm.state = "addressStateHeaderParams"
                /\ Len(fsm'.s) < Len(fsm.s)
           ELSE Place(OrderOf(fsm.kind), fsm'.state) > Place(OrderOf(fsm.kind), fsm.state)
         ]_vars
    /\ (fsm.kind # "none") ~> (fsm.kind # "none" /\ (fsm.state = "nil" \/ fsm.err # NoErr))

\* the header-params state has followed itself and the loop has ended
C32_Witness ==
    /\ fsm.kind = "addr"
    /\ fsm.state = "nil" /\ fsm.err = NoErr
    /\ fsm.from = "addressStateHeaderParams"
    /\ Len(fsm.obj.Params.data) >= 2

\* the text after the ']' of a bracketed host
AfterBracket(s) == SliceFrom(HostPortOf(s), IndexAny(HostPortOf(s), {"]"}) + 1)

\* the same text with the plain host h in the place of the bracketed one
PlainTwin(s) ==
    Slice(s, 0, Len(s) - Len(HostPortOf(s))) \o <<"h">> \o AfterBracket(s)

(***************************************************************************)
(* C33. After the ']' of an IPv6 host the parse goes on as it does after a *)
(* plain host: with ':', ';', '?' or the end of the text next, the error,  *)
(* the port, the parameters and the headers are those of the same text     *)
(* with a plain host; with any other character next the parse fails, so    *)
(* that no text is dropped.                                                *)
(***************************************************************************)
C33_AfterBracketDispatch ==
    (/\ pc = "ParseSIPURI"
     /\ BracketForm(uriStr)
     /\ Len(BracketContent(uriStr)) <= IPv6MaxContent) =>
        IF AfterBracket(uriStr) # <<>> /\ AfterBracket(uriStr)[1] \notin {":", ";", "?"}
        THEN outErr # NoErr
        ELSE With(ParseSIPURI(PlainTwin(uriStr), ZeroSIPURI), LAMBDA p :
               /\ outErr = p.err
               /\ outErr = NoErr =>
                    /\ out.Host = BracketHost(uriStr)
                    /\ out.Port = p.uri.Port
                    /\ out.Params = p.uri.Params
                    /\ out.Headers = p.uri.Headers)

\* the segment of a header-params text: the text before its first ';'
SegmentOf(s) == IF IndexAny(s, {";"}) < 0 THEN s ELSE Slice(s, 0, IndexAny(s, {";"}))

\* a segment split on its first '=': the whole segment is the key when it has none
SplitFirstEqual(seg) ==
    IF IndexAny(seg, {"="}) < 0 THEN Pair(seg, <<>>)
    ELSE Pair(Slice(seg, 0, IndexAny(seg, {"="})), SliceFrom(seg, IndexAny(seg, {"="}) + 1))

(***************************************************************************)
(* C34. A pass of the address header-params state takes the text before    *)
(* the first ';' as one segment: an empty segment adds no parameter, any   *)
(* other adds the pair of the text before its first '=' and the text after *)
(* it, the value being empty when the segment has no '='.                  *)
(***************************************************************************)
C34_SplitOnFirstEqual ==
    [][ (fsm.kind = "addr" /\ fsm.state = "addressStateHeaderParams") =>
            fsm'.obj.Params =
                IF SegmentOf(fsm.s) = <<>> THEN fsm.obj.Params
                ELSE Add(fsm.obj.Params, <<SplitFirstEqual(SegmentOf(fsm.s))>>)
      ]_vars

(***************************************************************************)
(* C35. In the quoted display-name state a backslash escapes exactly the   *)
(* next character.  The name ends at the first quote that is not escaped   *)
(* and DisplayName is the text before it as written, backslashes kept; an  *)
(* escaped CR or LF met before that quote is an error, and so is the end   *)
(* of the text met before it.  A character is escaped when the run of      *)
(* backslashes right before it has odd length.                             *)
(***************************************************************************)
\* the number of backslashes in a row that end right before index i of s
BackslashRun(s, i) ==
    LET starts == { j \in 0..i : \A k \in j..(i - 1) : s[k + 1] = "\\" }
    IN i - (CHOOSE j \in starts : \A k \in starts : j <= k)

IsEscaped(s, i) == BackslashRun(s, i) % 2 = 1

ClosingQuotes(s) == { i \in 0..(Len(s) - 1) : s[i + 1] = "\"" /\ ~IsEscaped(s, i) }

EscapedLineEnds(s) == { i \in 0..(Len(s) - 1) : s[i + 1] \in {"CR", "LF"} /\ IsEscaped(s, i) }

FirstOf(S) == CHOOSE i \in S : \A k \in S : i <= k

C35_QuotedNameEscapes ==
    [][ (fsm.kind = "addr" /\ fsm.state = "addressStateDisplayNameQuoted") =>
          LET ends == ClosingQuotes(fsm.s) \cup EscapedLineEnds(fsm.s)
          IN IF ends = {}
             THEN /\ fsm'.err = "invalid uri display name inside quotes"
                  /\ fsm'.obj = fsm.obj
             ELSE IF FirstOf(ends) \in EscapedLineEnds(fsm.s)
             THEN /\ fsm'.err = "invalid display name, not allowed to escape"
                  /\ fsm'.obj = fsm.obj
             ELSE /\ fsm'.obj.DisplayName = Slice(fsm.s, 0, FirstOf(ends))
                  /\ fsm'.err \in {NoErr, "no uri after display name"}
                  /\ fsm'.err = NoErr <=>
                        \E j \in (FirstOf(ends) + 1)..(Len(fsm.s) - 1) :
                            fsm.s[j + 1] \in {"<", ";"} ]_vars

\* the name \\\" was closed by the quote after its escaped quote and kept as written
C35_Witness ==
    /\ fsm.kind = "addr" /\ fsm.from = "addressStateDisplayNameQuoted"
    /\ fsm.state = "addressStateUriBracket"
    /\ fsm.obj.DisplayName = <<"\\", "\\", "\\", "\"">>

(***************************************************************************)
(* C36. parseRouteAddress takes the end of the header text as the end of   *)
(* the last segment: for every header text it returns an error or stores   *)
(* a parsed SIP URI in *address; it never returns nil with *address left   *)
(* as the caller passed it.                                                *)
(***************************************************************************)
C36_RouteErrorOrAddress ==
    (hpc = "done" /\ hdr.kind \in RouteKinds) =>
        \/ hdr.err # NoErr
        \/ /\ hdr.address # ZeroSIPURI
           /\ \E i \in 0..Len(hdrText) :
                 With(ParseAddressValue(Slice(hdrText, 0, i)), LAMBDA r :
                     r.err = NoErr /\ hdr.address = r.address.URI)

(***************************************************************************)
(* C37. TELtoSIP does not modify the source TEL URI: after a successful    *)
(* call the TEL URI is as it was before, its Params still holding          *)
(* phone-context and holding user-context only if they held it before, so  *)
(* that a second call on it succeeds like the first.                       *)
(***************************************************************************)
C37_TelSourceUntouched ==
    (tpc = "TELtoSIP" /\ telErr = NoErr) =>
        /\ tel = telBefore
        /\ Has(tel.Params, PhoneContext)
        /\ TELtoSIP(tel, sipBefore).err = NoErr

(***************************************************************************)
(* C38. For every URI a successful ParseURI, ParseSIPURI or ParseTELURI    *)
(* returned, Clone() completes without fault and the copy is independent:  *)
(* an Add on the copy's Params or Headers leaves the original's Params and *)
(* Headers as they were, also when the original's map is empty.            *)
(***************************************************************************)
\* the URIs a successful parse has returned in this state
ParsedURIs ==
    (IF pc \in {"ParseURI", "Reparsed"} /\ uri.err = NoErr THEN {uri.uri} ELSE {})
    \cup (IF pc \in {"ParseSIPURI", "ParseTELURI"} /\ outErr = NoErr THEN {out} ELSE {})

\* a map of the original after c.Add(p) on the same map of the copy
AfterAddOnCopy(h, own, p) == IF own \/ h = NilHP THEN h ELSE Add(h, <<p>>)

C38_CloneIndependent ==
    \A u \in ParsedURIs :
        With(URIClone(u), LAMBDA r :
            /\ r.err = NoErr
            /\ AfterAddOnCopy(u.Params, r.ownParams, Pair(<<"z">>, <<"1">>)) = u.Params
            /\ AfterAddOnCopy(u.Headers, r.ownHeaders, Pair(<<"z">>, <<"1">>)) = u.Headers)

(***************************************************************************)
(* C39. For an address without angle brackets ParseAddressValue gives a    *)
(* wildcard URI only when the addr-spec is exactly "*"; any other          *)
(* addr-spec, a '*' in it or not, is handed to ParseURI and keeps its      *)
(* user, its host and the header parameters written after it.              *)
(***************************************************************************)
C39_WildcardOnlyForStar ==
    (apc = "done" /\ ~addrIn.bracket /\ addrIn.disp = <<>> /\ addrIn.core # <<"*">>) =>
        With(ParseURI(addrIn.core), LAMBDA want :
            IF want.err # NoErr THEN addr.err # NoErr
            ELSE /\ addr.err = NoErr
                 /\ addr.address.URI = want.uri
                 /\ Length(addr.address.Params) = Len(addrIn.after))

(***************************************************************************)
(* C40. A HeaderParams obtained by value from GetParams or handed by value *)
(* to SetParams can be mutated with Add and Remove without breaking the    *)
(* other holder's map: in both copies every index stored in keys stays     *)
(* within the bounds of data, and Get, Add and Remove never fault.         *)
(***************************************************************************)
C40_CopiesStayInBounds ==
    /\ ~byval.fault
    /\ \A who \in Holders : \A k \in DOMAIN byval.keys : byval.keys[k] < byval[who].len

====
